---- MODULE Spec2Model ----
(***************************************************************************)
(* nodewise: the process supervisor (src/runner.js, class Runner), the     *)
(* interactive prompt (src/explainer/interactive.js) and the CLI wiring    *)
(* (bin/nodewise.js) as one event-driven state machine.  Every action is   *)
(* one run-to-completion callback of the Node event loop.                  *)
(***************************************************************************)
EXTENDS Integers, Sequences, FiniteSets, TLC

VARIABLES
    sup,                      \* supervisor process: "constructed" | "running" | "exited"
    config,                   \* this.config (read-only after load)
    child,                    \* this.child: 0 is null, else the launch number
    watcher,                  \* this.watcher: 0 is null, else the watcher's id
    isRestarting,             \* this.isRestarting
    lastErrorExplanationTime, \* this.lastErrorExplanationTime
    isProcessExiting,         \* this.isProcessExiting
    procs,                    \* every child ever spawned, by launch number
    openWatchers,             \* chokidar watchers created and not closed
    timers,                   \* pending setTimeout callbacks of restart()
    now,                      \* Date.now(), in ms
    cancelPrompt,             \* interactive.js: let cancelPrompt
    activePromptResolver,     \* interactive.js: let activePromptResolver (0 is null)
    prompts,                  \* every getUserInput() promise ever created
    stdin,                    \* process.stdin: raw mode, flowing, keypress listeners
    hist,                     \* history of restart(): calls accepted, whether a
                              \* call returned at the guard, 500 ms timers
                              \* scheduled, start() calls made; and whether a
                              \* client has called stop()
    call,                     \* one call under study, of explain(errorText,
                              \* config) or of a function of config.js: its
                              \* arguments, how far it has run, what the
                              \* caller got
    io                        \* the chunks the children wrote and what the
                              \* supervisor wrote to its own stdout and
                              \* stderr for them, with the detector's verdicts

sessionVars == <<sup, config, child, watcher, isRestarting,
                 lastErrorExplanationTime, isProcessExiting, procs,
                 openWatchers, timers, now, cancelPrompt,
                 activePromptResolver, prompts, stdin, hist>>

vars == <<sessionVars, call, io>>

runnerVars == <<child, watcher, isRestarting, lastErrorExplanationTime,
                isProcessExiting, procs, openWatchers, timers, hist>>

uiVars == <<cancelPrompt, activePromptResolver, prompts, stdin>>

(***************************************************************************)
(* Bounds of the model.                                                    *)
(***************************************************************************)
MaxLaunch == 2
MaxPrompts == 2
MaxTicks == 7
MaxBuf == 1
MaxChunks == 2
MaxTextLines == 7

(***************************************************************************)
(* Program constants (milliseconds).                                       *)
(***************************************************************************)
DebounceWindow == 500
GraceWindow == 500
SettleDelay == 100

\* truncateError(errorText, 6, 800)
SnippetLines == 6
SnippetChars == 800

\* U+FFFD, which Buffer.toString() puts for bytes that are not UTF-8
ReplacementChar == 65533

\* The clock advances in steps of the shortest delay of the program.
TickMs == SettleDelay

Modes == {"normal", "gemini"}

(***************************************************************************)
(* Output chunks.  A text is known by the lower-cased needles it contains. *)
(***************************************************************************)
TraceLine == "    at main (app.js:3:5)"
TypeErrorLine == "TypeError: obj.kjbvend is not a function"

ChunkTexts == {TraceLine, TypeErrorLine}

BuildLine == "Compilation FAILED"
ListenLine == "listening on port 3000"

\* the texts the detector is studied with
DetectorTexts == ChunkTexts \cup {BuildLine, ListenLine}

NeedlesIn(text) ==
    CASE text = TypeErrorLine -> {"error:", "typeerror"}
      [] text = BuildLine -> {"failed"}
      [] OTHER -> {}

\* The needle of each case-insensitive regex of isErrorOutput, in order.
errorPatterns ==
    <<"error:", "error:", "typeerror", "referenceerror", "syntaxerror",
      "warning:", "failed", "throw", "stack trace", "traceback",
      "exception", "crash", "fatal">>

\* A variant of the detector that is silent while a debounce window is open.
isErrorOutputOutsideWindow(text) ==
    /\ \E i \in 1..Len(errorPatterns) : errorPatterns[i] \in NeedlesIn(text)
    /\ lastErrorExplanationTime = 0

isErrorOutput(text) ==
    \E i \in 1..Len(errorPatterns) : errorPatterns[i] \in NeedlesIn(text)

(***************************************************************************)
(* The bytes of a chunk.  A Buffer is a line of ASCII text followed by      *)
(* bytes of the two-byte character U+00E9 (195, 169), which the child's     *)
(* pipe may split between chunks.                                           *)
(***************************************************************************)
ByteTails == {<<>>, <<195>>, <<169>>, <<195, 169>>}

Buffers == [line : ChunkTexts, tail : ByteTails]

\* UTF-8 decoding of Buffer.toString(): code points, U+FFFD for a byte that
\* does not begin or continue a complete sequence (one- and two-byte forms)
RECURSIVE utf8Decode(_)
utf8Decode(b) ==
    IF b = <<>> THEN <<>>
    ELSE IF b[1] < 128
         THEN <<b[1]>> \o utf8Decode(Tail(b))
    ELSE IF /\ b[1] >= 194 /\ b[1] <= 223
            /\ Len(b) >= 2 /\ b[2] >= 128 /\ b[2] <= 191
         THEN <<(b[1] - 192) * 64 + (b[2] - 128)>>
                  \o utf8Decode(Tail(Tail(b)))
    ELSE <<ReplacementChar>> \o utf8Decode(Tail(b))

\* UTF-8 encoding of stream.write(string)
RECURSIVE utf8Encode(_)
utf8Encode(t) ==
    IF t = <<>> THEN <<>>
    ELSE IF t[1] < 128
         THEN <<t[1]>> \o utf8Encode(Tail(t))
    ELSE IF t[1] < 2048
         THEN <<192 + (t[1] \div 64), 128 + (t[1] % 64)>>
                  \o utf8Encode(Tail(t))
    ELSE <<224 + (t[1] \div 4096), 128 + ((t[1] \div 64) % 64),
           128 + (t[1] % 64)>> \o utf8Encode(Tail(t))

\* data.toString(): the ASCII line is kept, the other bytes are decoded
toString(data) == [line |-> data.line, tail |-> utf8Decode(data.tail)]

\* process.stdout.write(text) / process.stderr.write(text): the bytes written
write(text) == [line |-> text.line, tail |-> utf8Encode(text.tail)]

(***************************************************************************)
(* interactive.js                                                          *)
(***************************************************************************)
UI == [cancelPrompt |-> cancelPrompt,
       activePromptResolver |-> activePromptResolver,
       prompts |-> prompts,
       stdin |-> stdin]

SetUI(u) ==
    /\ cancelPrompt' = u.cancelPrompt
    /\ activePromptResolver' = u.activePromptResolver
    /\ prompts' = u.prompts
    /\ stdin' = u.stdin

RemoveListener(ls, id) == SelectSeq(ls, LAMBDA x : x # id)

\* A variant of cleanup() without removeListener.
cleanupKeepsListener(u, id) ==
    [u EXCEPT !.stdin = [isRaw |-> FALSE, flowing |-> FALSE,
                         listeners |-> u.stdin.listeners],
              !.activePromptResolver = 0]

\* cleanup() of the prompt id
cleanup(u, id) ==
    [u EXCEPT !.stdin = [isRaw |-> FALSE, flowing |-> FALSE,
                         listeners |-> RemoveListener(u.stdin.listeners, id)],
              !.activePromptResolver = 0]

\* explain(errorText, config), as far as its first suspension: the remote
\* call is dispatched in gemini mode, the local backend answers at once
explain(mode) ==
    IF mode = "gemini" THEN "remotePending" ELSE "normal"

\* A variant that tests the answer against 'cancelled' alone.
ContinueUnlessCancelled(answer, mode) ==
    IF answer # "cancelled" THEN explain(mode) ELSE "none"

\* showInteractiveExplainer after `await getUserInput()`
ContinueAfterAnswer(answer, mode) ==
    IF answer = "yes" THEN explain(mode) ELSE "none"

\* resolve(answer) guarded by isResolved, and the continuation it wakes
resolve(u, id, answer) ==
    IF u.prompts[id].state = "AwaitingInput"
    THEN [u EXCEPT !.prompts[id].state = answer,
                   !.prompts[id].explain = ContinueAfterAnswer(answer, config.mode)]
    ELSE u

\* showInteractiveExplainer up to `await getUserInput()`: the promise executor
showInteractiveExplainer(u, text, src, pid) ==
    LET id == Len(u.prompts) + 1
        p == [state |-> "AwaitingInput", selectedIndex |-> 0,
              explain |-> "none", src |-> src, pid |-> pid, text |-> text,
              run |-> Len(procs), at |-> now, duringRestart |-> isRestarting]
    IN  [cancelPrompt |-> FALSE,
         activePromptResolver |-> id,
         prompts |-> Append(u.prompts, p),
         stdin |-> [isRaw |-> TRUE, flowing |-> TRUE,
                    listeners |-> Append(u.stdin.listeners, id)]]

Keys == {"up", "down", "return", "ctrl-c", "x"}

\* onKeypress of the prompt id
onKeypress(u, id, key) ==
    IF u.cancelPrompt
    THEN [ui |-> resolve(cleanup(u, id), id, "cancelled"), exit |-> FALSE]
    ELSE CASE key = "up" ->
                [ui |-> [u EXCEPT !.prompts[id].selectedIndex =
                                     IF @ > 0 THEN @ - 1 ELSE 1],
                 exit |-> FALSE]
           [] key = "down" ->
                [ui |-> [u EXCEPT !.prompts[id].selectedIndex =
                                     IF @ < 1 THEN @ + 1 ELSE 0],
                 exit |-> FALSE]
           [] key = "return" ->
                [ui |-> resolve(cleanup(u, id), id,
                                IF u.prompts[id].selectedIndex = 0
                                THEN "yes" ELSE "no"),
                 exit |-> FALSE]
           [] key = "ctrl-c" ->
                [ui |-> cleanup(u, id), exit |-> TRUE]
           [] OTHER ->
                [ui |-> u, exit |-> FALSE]

\* stdin.emit('keypress'): the listeners registered at emit time, in order
RECURSIVE emitKeypress(_, _, _, _)
emitKeypress(u, ls, key, i) ==
    IF i > Len(ls)
    THEN [ui |-> u, exit |-> FALSE]
    ELSE LET r == onKeypress(u, ls[i], key)
         IN  IF r.exit THEN r ELSE emitKeypress(r.ui, ls, key, i + 1)

\* cancelActivePrompt()
cancelActivePrompt(u) ==
    LET u1 == [u EXCEPT !.cancelPrompt = TRUE]
        id == u.activePromptResolver
    IN  IF id # 0 /\ u1.prompts[id].state = "AwaitingInput"
        THEN resolve(cleanup(u1, id), id, "cancelled")
        ELSE u1

(***************************************************************************)
(* runner.js                                                               *)
(***************************************************************************)
\* child.kill(sig): delivered, and `killed` set, while the handle is live
kill(ps, c, sig) ==
    IF c # 0 /\ ps[c].st = "running"
    THEN [ps EXCEPT ![c].killed = TRUE, ![c].sigs = @ \cup {sig}]
    ELSE ps

\* stop()
stop(r) ==
    [r EXCEPT !.openWatchers = IF r.watcher # 0 THEN @ \ {r.watcher} ELSE @,
              !.watcher = 0,
              !.procs = kill(r.procs, r.child, "SIGTERM"),
              !.child = 0]

\* A variant of setupWatcher() that does not close the watcher it replaces.
setupWatcherKeepsOld(r, id) ==
    [r EXCEPT !.openWatchers = @ \cup {id},
              !.watcher = id]

\* setupWatcher()
setupWatcher(r, id) ==
    [r EXCEPT !.openWatchers =
                  ((IF r.watcher # 0 THEN @ \ {r.watcher} ELSE @) \cup {id}),
              !.watcher = id]

\* this.scriptPath and this.args: assigned by the constructor only
scriptPath == "app.js"

args == <<"--port", "3000">>

\* start(): the arguments of spawn()
spawnArgs == [command |-> "node", argv |-> <<scriptPath>> \o args,
              NODEWISE_ACTIVE |-> "true"]

\* start(): ok tells whether spawn() succeeds
start(r, ok) ==
    LET r1 == IF r.child # 0 THEN stop(r) ELSE r
        n == Len(r1.procs) + 1
        proc == [st |-> IF ok THEN "running" ELSE "failed", killed |-> FALSE,
                 sigs |-> {}, buf |-> <<>>, code |-> "none",
                 argv |-> spawnArgs]
        r2 == [r1 EXCEPT !.procs = Append(@, proc), !.child = n]
    IN  setupWatcher(r2, n)

R == [child |-> child, watcher |-> watcher, procs |-> procs,
      openWatchers |-> openWatchers]

SetR(r) ==
    /\ child' = r.child
    /\ watcher' = r.watcher
    /\ procs' = r.procs
    /\ openWatchers' = r.openWatchers

\* handleError(errorText)
handleError(u, text, src, pid) ==
    IF text = <<>> THEN u ELSE showInteractiveExplainer(u, text, src, pid)

\* A variant that takes the time of every trigger it sees, suppressed or not.
explainErrorAnchoredAtLastSeen(u, text, src, pid) ==
    IF lastErrorExplanationTime # 0
       /\ (now - lastErrorExplanationTime) < DebounceWindow
    THEN [last |-> now, ui |-> u]
    ELSE IF isProcessExiting
         THEN [last |-> now, ui |-> u]
         ELSE [last |-> now,
               ui |-> showInteractiveExplainer(u, <<text>>, src, pid)]

\* A variant without the isProcessExiting test.
explainErrorWhileExiting(u, text, src, pid) ==
    IF lastErrorExplanationTime # 0
       /\ (now - lastErrorExplanationTime) < DebounceWindow
    THEN [last |-> lastErrorExplanationTime, ui |-> u]
    ELSE [last |-> now,
          ui |-> showInteractiveExplainer(u, <<text>>, src, pid)]

\* A variant that leaves the timestamp alone when it accepts a trigger.
explainErrorWithoutStamp(u, text, src, pid) ==
    IF lastErrorExplanationTime # 0
       /\ (now - lastErrorExplanationTime) < DebounceWindow
    THEN [last |-> lastErrorExplanationTime, ui |-> u]
    ELSE IF isProcessExiting
         THEN [last |-> lastErrorExplanationTime, ui |-> u]
         ELSE [last |-> lastErrorExplanationTime,
               ui |-> showInteractiveExplainer(u, <<text>>, src, pid)]

\* explainErrorWithDebounce(errorText)
explainErrorWithDebounce(u, text, src, pid) ==
    IF lastErrorExplanationTime # 0
       /\ (now - lastErrorExplanationTime) < DebounceWindow
    THEN [last |-> lastErrorExplanationTime, ui |-> u]
    ELSE IF isProcessExiting
         THEN [last |-> now, ui |-> u]
         ELSE [last |-> now,
               ui |-> showInteractiveExplainer(u, <<text>>, src, pid)]

(***************************************************************************)
(* errorPatterns.js, explainer/normal.js, explainer/gemini.js and          *)
(* explainer/index.js: one call of explain(errorText, config).             *)
(***************************************************************************)
ModuleLine == "Error: Cannot find module './config'"
ReferenceLine == "ReferenceError: undefinedVariable is not defined"
SyntaxLine == "SyntaxError: Unexpected token }"
CycleLine == "Warning: require cycle: a.js -> b.js"
FailedLine == "Something failed"
UnknownLine == "flibbertigibbet"
NullReadLine == "TypeError: Cannot read properties of null (reading 'method')"

ErrorTexts == {"", ModuleLine, ReferenceLine, TypeErrorLine, SyntaxLine,
               CycleLine, FailedLine, UnknownLine, NullReadLine}

\* The alternatives of the table's case-insensitive regexes, lower-cased, that
\* occur in a text.
SignalsIn(text) ==
    CASE text = ModuleLine -> {"cannot find module", "error"}
      [] text = ReferenceLine -> {"referenceerror", "is not defined", "error"}
      [] text = TypeErrorLine -> {"typeerror", "error"}
      [] text = NullReadLine -> {"typeerror", "cannot read properties",
                                 "error"}
      [] text = SyntaxLine -> {"syntaxerror", "unexpected token",
                               "syntaxerror: unexpected", "error"}
      [] text = CycleLine -> {"require.*cycle"}
      [] text = FailedLine -> {"failed"}
      [] OTHER -> {}

\* errorPatterns of errorPatterns.js: entries 1 to 4, 13, 28 and the last of
\* the 157; `explain` is the first sentence of the entry's template.
MODULE_NOT_FOUND ==
    [name |-> "MODULE_NOT_FOUND",
     match |-> {"cannot find module", "module_not_found"},
     explain |-> "This error occurs when you try to import or require a file or package that doesn't exist."]

REFERENCE_ERROR ==
    [name |-> "REFERENCE_ERROR",
     match |-> {"referenceerror", "is not defined"},
     explain |-> "You're trying to use a variable that doesn't exist or hasn't been declared."]

TYPE_ERROR ==
    [name |-> "TYPE_ERROR",
     match |-> {"typeerror", "cannot read property",
                "cannot read properties"},
     explain |-> "You're trying to call a method or access a property on something that doesn't have it."]

SYNTAX_ERROR ==
    [name |-> "SYNTAX_ERROR",
     match |-> {"syntaxerror", "unexpected token", "unexpected identifier"},
     explain |-> "There's a syntax error in your JavaScript code - something is written incorrectly."]

UNEXPECTED_TOKEN ==
    [name |-> "UNEXPECTED_TOKEN",
     match |-> {"unexpected token", "unexpected identifier",
                "syntaxerror: unexpected"},
     explain |-> "The parser encountered unexpected syntax it didn't expect."]

REQUIRE_CYCLE ==
    [name |-> "REQUIRE_CYCLE",
     match |-> {"circular.*require", "require.*cycle", "cannot find module"},
     explain |-> "Circular dependency detected - files require each other creating a loop."]

GENERAL_ERROR ==
    [name |-> "GENERAL_ERROR",
     match |-> {"error", "failed", "exception"},
     explain |-> "A general error occurred. Check the error message and stack trace above."]

\* A variant of the list with the catch-all entry first.
errorPatternTableCatchAllFirst ==
    <<GENERAL_ERROR, MODULE_NOT_FOUND, REFERENCE_ERROR, TYPE_ERROR,
      SYNTAX_ERROR, UNEXPECTED_TOKEN, REQUIRE_CYCLE>>

\* the list, in its shipped order
errorPatternTable ==
    <<MODULE_NOT_FOUND, REFERENCE_ERROR, TYPE_ERROR, SYNTAX_ERROR,
      UNEXPECTED_TOKEN, REQUIRE_CYCLE, GENERAL_ERROR>>

\* p.match.test(errorText)
Matches(p, text) == p.match \cap SignalsIn(text) # {}

\* Array.prototype.find from index i: the index of the first match, 0 if none
RECURSIVE find(_, _)
find(text, i) ==
    IF i > Len(errorPatternTable) THEN 0
    ELSE IF Matches(errorPatternTable[i], text) THEN i
    ELSE find(text, i + 1)

\* the same scan from the end of the list: the index of the last match
RECURSIVE findLast(_, _)
findLast(text, i) ==
    IF i < 1 THEN 0
    ELSE IF Matches(errorPatternTable[i], text) THEN i
    ELSE findLast(text, i - 1)

\* A variant of findErrorPattern that keeps the last matching entry.
findLastErrorPattern(text) ==
    LET i == findLast(text, Len(errorPatternTable))
    IN  IF i # 0 THEN errorPatternTable[i]
        ELSE errorPatternTable[Len(errorPatternTable)]

\* findErrorPattern(errorText)
findErrorPattern(text) ==
    LET i == find(text, 1)
    IN  IF i # 0 THEN errorPatternTable[i]
        ELSE errorPatternTable[Len(errorPatternTable)]

\* getErrorExplanation(errorText)
getErrorExplanation(text) == findErrorPattern(text).explain

NoResult == [kind |-> "none", body |-> "", raw |-> ""]

\* A variant of explainWithNormal without the try/catch.
explainWithNormalUncaught(text, fault) ==
    IF fault
    THEN [kind |-> "thrown", body |-> "", raw |-> ""]
    ELSE [kind |-> "template", body |-> getErrorExplanation(text),
          raw |-> ""]

\* explainWithNormal(errorText); fault tells whether getErrorExplanation
\* throws.  The message of the catch branch is its fixed text followed by
\* the raw error text.
explainWithNormal(text, fault) ==
    IF fault
    THEN [kind |-> "unable",
          body |-> "Unable to explain this error. Here's what we know:",
          raw |-> text]
    ELSE [kind |-> "template", body |-> getErrorExplanation(text),
          raw |-> ""]

\* What the request of explainWithGemini comes to: a response with text, with
\* white space only, with an empty text, without the text path; an HTTP
\* status; or an error code of the connection.
RemoteOutcomes ==
    {"text", "blank", "empty", "malformed", "401", "403", "429", "500",
     "503", "ECONNREFUSED", "ENOTFOUND", "ETIMEDOUT", "EHOSTUNREACH",
     "ECONNABORTED", "400"}

\* the response has a truthy text at candidates[0].content.parts[0].text
HasText(outcome) == outcome \in {"text", "blank"}

\* explainWithGemini: the explanation returned for a response with text
geminiExplanation(outcome) ==
    [kind |-> "gemini",
     body |-> IF outcome = "text" THEN "plain text of the response" ELSE "",
     raw |-> ""]

\* explainWithGemini: the message of the error thrown by its catch block
geminiFailure(outcome) ==
    CASE outcome \in {"401", "403"} ->
            "Gemini API Key Error: invalid or expired key"
      [] outcome = "429" -> "Gemini rate limit (429)"
      [] outcome \in {"500", "503"} -> "Gemini service unavailable"
      [] outcome \in {"ECONNREFUSED", "ENOTFOUND"} ->
            "Network error: cannot reach Gemini"
      [] outcome \in {"ETIMEDOUT", "EHOSTUNREACH"} ->
            "Timeout: Gemini did not respond"
      [] outcome \in {"empty", "malformed"} ->
            "Gemini API Error: Empty response from Gemini API"
      [] outcome = "ECONNABORTED" ->
            "Gemini API Error: timeout of 60000ms exceeded"
      [] OTHER -> "Gemini API Error: Request failed with status code 400"

\* config.mode as a JavaScript value: missing, the empty string, the two
\* recognised modes, another string
ModeValues == {"undefined", "", "normal", "gemini", "verbose"}

Falsy(m) == m \in {"undefined", ""}

NoConfig == [present |-> FALSE, mode |-> "undefined", apiKey |-> FALSE]

RouterConfigs ==
    {NoConfig} \cup [present : {TRUE}, mode : ModeValues, apiKey : BOOLEAN]

\* A variant of the router without `|| 'normal'`.
routeNoDefault(cfg) ==
    IF ~cfg.present THEN "no config"
    ELSE IF cfg.mode = "gemini" THEN "gemini"
    ELSE IF cfg.mode = "normal" THEN "normal"
    ELSE "unknown mode"

\* A variant of the router that goes to the remote backend whenever a key is
\* configured.
routeByKey(cfg) ==
    IF ~cfg.present THEN "no config"
    ELSE LET mode == IF Falsy(cfg.mode) THEN "normal" ELSE cfg.mode
         IN  IF mode = "gemini" \/ cfg.apiKey THEN "gemini"
             ELSE IF mode = "normal" THEN "normal"
             ELSE "unknown mode"

\* explain(): the branch taken on config
route(cfg) ==
    IF ~cfg.present THEN "no config"
    ELSE LET mode == IF Falsy(cfg.mode) THEN "normal" ELSE cfg.mode
         IN  IF mode = "gemini" THEN "gemini"
             ELSE IF mode = "normal" THEN "normal"
             ELSE "unknown mode"

NoIo == [sent |-> <<>>, written |-> <<>>, verdicts |-> <<>>]

\* A line of an error text after trim(): its length, and whether "..." occurs
\* in it.  An empty or white-space line has length 0.
TextLines ==
    {[len |-> 0, dots |-> FALSE], [len |-> 40, dots |-> FALSE],
     [len |-> 40, dots |-> TRUE], [len |-> 300, dots |-> FALSE]}

RECURSIVE Texts(_)
Texts(n) ==
    IF n = 0 THEN {<<>>}
    ELSE Texts(n - 1)
            \cup {Append(t, l) : t \in {x \in Texts(n - 1) : Len(x) = n - 1},
                                 l \in TextLines}

RECURSIVE joinedLength(_)
joinedLength(ls) ==
    IF ls = <<>> THEN 0
    ELSE IF Len(ls) = 1 THEN ls[1].len
    ELSE ls[1].len + 1 + joinedLength(Tail(ls))

NoSnippet == [kept |-> <<>>, chars |-> 0, cutMarker |-> FALSE,
              lineMarker |-> FALSE, of |-> 0]

\* truncateError(text, maxLines, maxChars): the lines that were joined, the
\* characters of them in the result, the marker appended after a cut at
\* maxChars, the marker appended on a line of its own, and the number of
\* non-empty lines of the text
truncateError(text, maxLines, maxChars) ==
    LET lines == SelectSeq(text, LAMBDA l : l.len > 0)
        selected == SubSeq(lines, 1, IF Len(lines) < maxLines
                                     THEN Len(lines) ELSE maxLines)
        cut == joinedLength(selected) > maxChars
        hasDots == cut \/ \E i \in 1..Len(selected) : selected[i].dots
    IN  [kept |-> selected,
         chars |-> IF cut THEN maxChars ELSE joinedLength(selected),
         cutMarker |-> cut,
         lineMarker |-> Len(lines) > maxLines /\ ~hasDots,
         of |-> Len(lines)]

\* config.gemini.apiKey, when there is one
ApiKeys == {"AIzaSy-key-one", "AIzaSy-key-two"}

DEFAULT_ENDPOINT ==
    "https://generativelanguage.googleapis.com/v1beta/models/gemini-2.5-flash:generateContent"

NoRequest == [url |-> <<>>, headers |-> <<>>]

\* explainWithGemini: the url and the headers given to axios.post
request(apiKey) ==
    [url |-> <<DEFAULT_ENDPOINT, "?key=", apiKey>>,
     headers |-> <<"Content-Type", "application/json",
                   "x-goog-api-key", apiKey>>]

\* explainWithGemini: the debug block of the catch.  It calls truncateString,
\* which is local to truncateError, so it throws a ReferenceError before its
\* console.error; `catch (logErr)` drops that.  Nothing is printed.
debugLog(req, outcome) == <<>>

NoCall == [pc |-> "idle", config |-> NoConfig, text |-> "",
           remote |-> "text", fault |-> FALSE, result |-> NoResult,
           error |-> "", network |-> FALSE, warned |-> "",
           key |-> "", request |-> NoRequest, logged |-> <<>>,
           prompted |-> "", invocations |-> 0, thinking |-> FALSE,
           shown |-> "none", thrown |-> FALSE,
           errorLines |-> <<>>, snippet |-> NoSnippet]

\* the calls of explain() under study
Calls ==
    {x \in {[NoCall EXCEPT !.pc = "called", !.config = c, !.text = t,
                           !.remote = o, !.fault = f, !.key = k] :
               c \in RouterConfigs, t \in ErrorTexts, o \in RemoteOutcomes,
               f \in BOOLEAN, k \in ApiKeys \cup {""}} :
        x.config.apiKey = (x.key # "")}

\* `return await explainWithNormal(errorText)`: what the caller gets
Settle(c, r) ==
    IF r.kind = "thrown"
    THEN [c EXCEPT !.pc = "rejected", !.error = "getErrorExplanation threw"]
    ELSE [c EXCEPT !.pc = "resolved", !.result = r]

(***************************************************************************)
(* Initial state: after `new Runner(scriptPath, args, appConfig)`.         *)
(***************************************************************************)
InitSession ==
    /\ sup = "constructed"
    /\ config \in [mode : Modes, autoRestart : BOOLEAN]
    /\ child = 0
    /\ watcher = 0
    /\ isRestarting = FALSE
    /\ lastErrorExplanationTime = 0
    /\ isProcessExiting = FALSE
    /\ procs = <<>>
    /\ openWatchers = {}
    /\ timers = <<>>
    /\ now = TickMs
    /\ cancelPrompt = FALSE
    /\ activePromptResolver = 0
    /\ prompts = <<>>
    /\ stdin = [isRaw |-> FALSE, flowing |-> FALSE, listeners |-> <<>>]
    /\ hist = [accepted |-> 0, ignored |-> FALSE, grace |-> 0, starts |-> 0,
              stopped |-> FALSE]

Init ==
    /\ InitSession
    /\ call = NoCall
    /\ io = NoIo

(***************************************************************************)
(* Actions.                                                                *)
(***************************************************************************)
\* bin/nodewise.js: runner.start()
MainStart ==
    /\ sup = "constructed"
    /\ \E ok \in BOOLEAN : SetR(start(R, ok))
    /\ sup' = "running"
    /\ UNCHANGED <<call, io, config, isRestarting, lastErrorExplanationTime,
                   isProcessExiting, timers, now, hist>>
    /\ UNCHANGED uiVars

\* Whether a handler can still tell how much time has passed: a timer is
\* pending, or the debounce window of the last accepted trigger is open.
TimeObservable ==
    \/ timers # <<>>
    \/ /\ lastErrorExplanationTime # 0
       /\ (now - lastErrorExplanationTime) < DebounceWindow

\* time passes; a due timer fires before the clock moves on
Tick ==
    /\ sup = "running"
    /\ TimeObservable
    /\ now + TickMs <= MaxTicks * TickMs
    /\ \A i \in 1..Len(timers) : timers[i].due > now
    /\ now' = now + TickMs
    /\ UNCHANGED <<call, io, sup, config>>
    /\ UNCHANGED runnerVars
    /\ UNCHANGED uiVars

\* child.stderr.on('data'), from errorBuffer += text on
stderrOnData(c, text) ==
    /\ sup = "running"
    /\ procs[c].st = "running"
    /\ IF isErrorOutput(text)
       THEN LET e == explainErrorWithDebounce(UI, text, "stderr", c)
            IN  /\ Len(e.ui.prompts) <= MaxPrompts
                /\ SetUI(e.ui)
                /\ lastErrorExplanationTime' = e.last
                /\ procs' = [procs EXCEPT ![c].buf = <<>>]
       ELSE /\ Len(procs[c].buf) < MaxBuf
            /\ procs' = [procs EXCEPT ![c].buf = Append(@, text)]
            /\ UNCHANGED lastErrorExplanationTime
            /\ UNCHANGED uiVars
    /\ UNCHANGED <<call, sup, config, child, watcher, isRestarting,
                   isProcessExiting, openWatchers, timers, now, hist>>

OnStderr(c, text) ==
    /\ stderrOnData(c, text)
    /\ UNCHANGED io

\* A variant that keeps every stdout chunk in the buffer, as the stderr
\* handler does.
stdoutOnDataBuffersAll(c, text) ==
    /\ sup = "running"
    /\ procs[c].st = "running"
    /\ IF isErrorOutput(text)
       THEN LET e == explainErrorWithDebounce(UI, text, "stdout", c)
            IN  /\ Len(e.ui.prompts) <= MaxPrompts
                /\ SetUI(e.ui)
                /\ lastErrorExplanationTime' = e.last
                /\ procs' = [procs EXCEPT ![c].buf = <<>>]
       ELSE /\ Len(procs[c].buf) < MaxBuf
            /\ procs' = [procs EXCEPT ![c].buf = Append(@, text)]
            /\ UNCHANGED lastErrorExplanationTime
            /\ UNCHANGED uiVars
    /\ UNCHANGED <<call, sup, config, child, watcher, isRestarting,
                   isProcessExiting, openWatchers, timers, now, hist>>

\* child.stdout.on('data'), from the isErrorOutput test on
stdoutOnData(c, text) ==
    /\ sup = "running"
    /\ procs[c].st = "running"
    /\ IF isErrorOutput(text)
       THEN LET e == explainErrorWithDebounce(UI, text, "stdout", c)
            IN  /\ Len(e.ui.prompts) <= MaxPrompts
                /\ SetUI(e.ui)
                /\ lastErrorExplanationTime' = e.last
                /\ procs' = [procs EXCEPT ![c].buf = <<>>]
       ELSE /\ UNCHANGED <<procs, lastErrorExplanationTime>>
            /\ UNCHANGED uiVars
    /\ UNCHANGED <<call, sup, config, child, watcher, isRestarting,
                   isProcessExiting, openWatchers, timers, now, hist>>

OnStdout(c, text) ==
    /\ stdoutOnData(c, text)
    /\ UNCHANGED io

\* one 'data' event with its bytes: what the handler writes, what the
\* detector says, and the rest of the handler
OnData(stream, c, data) ==
    [sent |-> Append(io.sent, [stream |-> stream, pid |-> c, data |-> data]),
     written |-> Append(io.written,
                        [stream |-> stream, pid |-> c,
                         data |-> write(toString(data))]),
     verdicts |-> Append(io.verdicts,
                         [stream |-> stream, text |-> toString(data).line,
                          seen |-> Len(io.sent),
                          verdict |-> isErrorOutput(toString(data).line)])]

\* child.stderr.on('data'), whole
StderrChunk(c, data) ==
    /\ Len(io.sent) < MaxChunks
    /\ io' = OnData("stderr", c, data)
    /\ stderrOnData(c, toString(data).line)

\* child.stdout.on('data'), whole
StdoutChunk(c, data) ==
    /\ Len(io.sent) < MaxChunks
    /\ io' = OnData("stdout", c, data)
    /\ stdoutOnData(c, toString(data).line)

\* child.on('error'): spawn failed
OnSpawnError(c) ==
    /\ sup = "running"
    /\ procs[c].st = "failed"
    /\ LET u == handleError(UI, procs[c].buf, "error", c)
       IN  /\ Len(u.prompts) <= MaxPrompts
           /\ SetUI(u)
    /\ procs' = [procs EXCEPT ![c].st = "errored"]
    /\ UNCHANGED <<call, io, sup, config, child, watcher, isRestarting,
                   lastErrorExplanationTime, isProcessExiting, openWatchers,
                   timers, now, hist>>

ExitCodes == {"0", "1", "null"}

\* A variant of the 'exit' handler that does not clear isProcessExiting.
OnExitLeavesFlag(c, code) ==
    /\ sup = "running"
    /\ procs[c].st = "running"
    /\ code = "null" => procs[c].sigs # {}
    /\ LET u == IF code # "0" /\ code # "null"
                   /\ ~isRestarting /\ procs[c].buf # <<>>
                THEN handleError(UI, procs[c].buf, "exit", c)
                ELSE UI
       IN  /\ Len(u.prompts) <= MaxPrompts
           /\ SetUI(u)
    /\ child' = 0
    /\ procs' = [procs EXCEPT ![c] = [st |-> "exited", killed |-> FALSE,
                                       sigs |-> {}, buf |-> <<>>,
                                       code |-> code,
                                       argv |-> procs[c].argv]]
    /\ isProcessExiting' = TRUE
    /\ UNCHANGED <<call, io, sup, config, watcher, isRestarting,
                   lastErrorExplanationTime, openWatchers, timers, now, hist>>

\* A variant of the 'exit' handler without the isRestarting test.
OnExitIgnoringRestart(c, code) ==
    /\ sup = "running"
    /\ procs[c].st = "running"
    /\ code = "null" => procs[c].sigs # {}
    /\ LET u == IF code # "0" /\ code # "null" /\ procs[c].buf # <<>>
                THEN handleError(UI, procs[c].buf, "exit", c)
                ELSE UI
       IN  /\ Len(u.prompts) <= MaxPrompts
           /\ SetUI(u)
    /\ child' = 0
    /\ procs' = [procs EXCEPT ![c] = [st |-> "exited", killed |-> FALSE,
                                       sigs |-> {}, buf |-> <<>>,
                                       code |-> code,
                                       argv |-> procs[c].argv]]
    /\ isProcessExiting' = FALSE
    /\ UNCHANGED <<call, io, sup, config, watcher, isRestarting,
                   lastErrorExplanationTime, openWatchers, timers, now, hist>>

\* child.on('exit'): code "null" is termination by a signal that was sent
OnExit(c, code) ==
    /\ sup = "running"
    /\ procs[c].st = "running"
    /\ code = "null" => procs[c].sigs # {}
    /\ LET u == IF code # "0" /\ code # "null"
                   /\ ~isRestarting /\ procs[c].buf # <<>>
                THEN handleError(UI, procs[c].buf, "exit", c)
                ELSE UI
       IN  /\ Len(u.prompts) <= MaxPrompts
           /\ SetUI(u)
    /\ child' = 0
    /\ procs' = [procs EXCEPT ![c] = [st |-> "exited", killed |-> FALSE,
                                       sigs |-> {}, buf |-> <<>>,
                                       code |-> code,
                                       argv |-> procs[c].argv]]
    /\ isProcessExiting' = FALSE
    /\ UNCHANGED <<call, io, sup, config, watcher, isRestarting,
                   lastErrorExplanationTime, openWatchers, timers, now, hist>>

\* A variant of restart(reason) without the re-entrancy guard.
restartUnguarded ==
    IF child # 0
    THEN /\ isRestarting' = TRUE
         /\ procs' = kill(procs, child, "SIGTERM")
         /\ timers' = Append(timers, [kind |-> "grace",
                                      due |-> now + GraceWindow,
                                      since |-> now])
         /\ hist' = [hist EXCEPT !.accepted = @ + 1, !.grace = @ + 1]
         /\ UNCHANGED <<child, watcher, lastErrorExplanationTime,
                        isProcessExiting, openWatchers>>
    ELSE /\ isRestarting' = FALSE
         /\ \E ok \in BOOLEAN : SetR(start(R, ok))
         /\ hist' = [hist EXCEPT !.accepted = @ + 1, !.starts = @ + 1]
         /\ UNCHANGED <<lastErrorExplanationTime, isProcessExiting, timers>>

\* A variant of restart(reason) that starts nothing when there is no child.
restartOnlyLiveChild ==
    IF isRestarting
    THEN /\ hist' = [hist EXCEPT !.ignored = TRUE]
         /\ UNCHANGED <<child, watcher, isRestarting,
                        lastErrorExplanationTime, isProcessExiting, procs,
                        openWatchers, timers>>
    ELSE IF child # 0
         THEN /\ isRestarting' = TRUE
              /\ procs' = kill(procs, child, "SIGTERM")
              /\ timers' = Append(timers, [kind |-> "grace",
                                           due |-> now + GraceWindow,
                                           since |-> now])
              /\ hist' = [hist EXCEPT !.accepted = @ + 1, !.grace = @ + 1]
              /\ UNCHANGED <<child, watcher, lastErrorExplanationTime,
                             isProcessExiting, openWatchers>>
         ELSE /\ isRestarting' = FALSE
              /\ hist' = [hist EXCEPT !.accepted = @ + 1]
              /\ UNCHANGED <<child, watcher, lastErrorExplanationTime,
                             isProcessExiting, procs, openWatchers, timers>>

\* restart(reason), called by the 'change' handler of a watcher
restart ==
    IF isRestarting
    THEN /\ hist' = [hist EXCEPT !.ignored = TRUE]
         /\ UNCHANGED <<child, watcher, isRestarting,
                        lastErrorExplanationTime, isProcessExiting, procs,
                        openWatchers, timers>>
    ELSE IF child # 0
         THEN /\ isRestarting' = TRUE
              /\ procs' = kill(procs, child, "SIGTERM")
              /\ timers' = Append(timers, [kind |-> "grace",
                                           due |-> now + GraceWindow,
                                           since |-> now])
              /\ hist' = [hist EXCEPT !.accepted = @ + 1, !.grace = @ + 1]
              /\ UNCHANGED <<child, watcher, lastErrorExplanationTime,
                             isProcessExiting, openWatchers>>
         ELSE /\ isRestarting' = FALSE
              /\ \E ok \in BOOLEAN : SetR(start(R, ok))
              /\ hist' = [hist EXCEPT !.accepted = @ + 1, !.starts = @ + 1]
              /\ UNCHANGED <<lastErrorExplanationTime, isProcessExiting,
                             timers>>

\* watcher.on('change')
OnWatcherChange(w) ==
    /\ sup = "running"
    /\ w \in openWatchers
    /\ isRestarting \/ Len(procs) + Len(timers) < MaxLaunch
    /\ restart
    /\ UNCHANGED <<call, io, sup, config, now>>
    /\ UNCHANGED uiVars

FirstDue(i) ==
    /\ timers[i].due <= now
    /\ \A j \in 1..Len(timers) :
          timers[j].due < timers[i].due => FALSE
    /\ \A j \in 1..(i - 1) : timers[j].due # timers[i].due

RemoveAt(s, i) == SubSeq(s, 1, i - 1) \o SubSeq(s, i + 1, Len(s))

\* A variant of the 500 ms timer that starts the child itself, without the
\* 100 ms timer.
OnGraceTimerStartsAtOnce(i) ==
    /\ sup = "running"
    /\ timers[i].kind = "grace"
    /\ FirstDue(i)
    /\ Len(procs) < MaxLaunch
    /\ isRestarting' = FALSE
    /\ \E ok \in BOOLEAN :
          SetR(start([R EXCEPT !.procs =
                         IF child # 0 /\ ~procs[child].killed
                         THEN kill(procs, child, "SIGKILL")
                         ELSE procs], ok))
    /\ timers' = RemoveAt(timers, i)
    /\ hist' = [hist EXCEPT !.starts = @ + 1]
    /\ UNCHANGED <<call, io, sup, config, lastErrorExplanationTime,
                   isProcessExiting, now>>
    /\ UNCHANGED uiVars

\* restart(): the 500 ms timer
OnGraceTimer(i) ==
    /\ sup = "running"
    /\ timers[i].kind = "grace"
    /\ FirstDue(i)
    /\ procs' = IF child # 0 /\ ~procs[child].killed
                THEN kill(procs, child, "SIGKILL")
                ELSE procs
    /\ timers' = Append(RemoveAt(timers, i),
                        [kind |-> "settle", due |-> now + SettleDelay,
                         since |-> timers[i].since])
    /\ UNCHANGED <<call, io, sup, config, child, watcher, isRestarting,
                   lastErrorExplanationTime, isProcessExiting, openWatchers,
                   now, hist>>
    /\ UNCHANGED uiVars

\* A variant of the 100 ms timer that leaves isRestarting as it is.
OnSettleTimerKeepsFlag(i) ==
    /\ sup = "running"
    /\ timers[i].kind = "settle"
    /\ FirstDue(i)
    /\ Len(procs) < MaxLaunch
    /\ \E ok \in BOOLEAN : SetR(start(R, ok))
    /\ timers' = RemoveAt(timers, i)
    /\ hist' = [hist EXCEPT !.starts = @ + 1]
    /\ UNCHANGED <<call, io, sup, config, isRestarting,
                   lastErrorExplanationTime, isProcessExiting, now>>
    /\ UNCHANGED uiVars

\* restart(): the 100 ms timer
OnSettleTimer(i) ==
    /\ sup = "running"
    /\ timers[i].kind = "settle"
    /\ FirstDue(i)
    /\ Len(procs) < MaxLaunch
    /\ isRestarting' = FALSE
    /\ \E ok \in BOOLEAN : SetR(start(R, ok))
    /\ timers' = RemoveAt(timers, i)
    /\ hist' = [hist EXCEPT !.starts = @ + 1]
    /\ UNCHANGED <<call, io, sup, config, lastErrorExplanationTime, isProcessExiting,
                   now>>
    /\ UNCHANGED uiVars

\* process.exit(0): the supervisor's heap, timers and terminal mode are gone;
\* what stays is what it left behind: r.procs, and the watchers it never closed
processExit(r) ==
    /\ sup' = "exited"
    /\ procs' = r.procs
    /\ openWatchers' = r.openWatchers
    /\ child' = 0
    /\ watcher' = 0
    /\ isRestarting' = FALSE
    /\ lastErrorExplanationTime' = 0
    /\ isProcessExiting' = FALSE
    /\ timers' = <<>>
    /\ hist' = [accepted |-> 0, ignored |-> FALSE, grace |-> 0, starts |-> 0,
              stopped |-> FALSE]
    /\ cancelPrompt' = FALSE
    /\ activePromptResolver' = 0
    /\ prompts' = <<>>
    /\ stdin' = [isRaw |-> FALSE, flowing |-> FALSE, listeners |-> <<>>]
    /\ UNCHANGED <<call, io, config, now>>

\* process.on('SIGINT' | 'SIGTERM'): handleShutdown()
handleShutdown ==
    /\ sup = "running"
    /\ processExit(stop(R))

\* a key pressed while stdin is flowing and a prompt listens
Keypress(key) ==
    /\ sup = "running"
    /\ stdin.flowing
    /\ stdin.listeners # <<>>
    /\ LET r == emitKeypress(UI, stdin.listeners, key, 1)
       IN  IF r.exit
           THEN processExit(R)
           ELSE /\ SetUI(r.ui)
                /\ UNCHANGED <<call, io, sup, config, now>>
                /\ UNCHANGED runnerVars

\* the remote call of explainWithGemini settles; on failure explain() falls back
GeminiSettles(p, ok) ==
    /\ sup = "running"
    /\ prompts[p].explain = "remotePending"
    /\ prompts' = [prompts EXCEPT ![p].explain =
                      IF ok THEN "gemini" ELSE "fallback"]
    /\ UNCHANGED <<call, io, sup, config, now, cancelPrompt, activePromptResolver,
                   stdin>>
    /\ UNCHANGED runnerVars

\* a client of the exported Runner calls stop()
Stop ==
    /\ sup = "running"
    /\ ~hist.stopped
    /\ SetR(stop(R))
    /\ hist' = [hist EXCEPT !.stopped = TRUE]
    /\ UNCHANGED <<call, io, sup, config, isRestarting, lastErrorExplanationTime,
                   isProcessExiting, timers, now>>
    /\ UNCHANGED uiVars

\* a client of interactive.js calls the exported cancelActivePrompt()
CancelActivePrompt ==
    /\ sup = "running"
    /\ SetUI(cancelActivePrompt(UI))
    /\ UNCHANGED <<call, io, sup, config, now>>
    /\ UNCHANGED runnerVars

\* explain(errorText, config) up to its first await
explainCalled ==
    /\ call.pc = "called"
    /\ call' =
         CASE route(call.config) = "no config" ->
                [call EXCEPT !.pc = "rejected",
                             !.error = "Configuration is required"]
           [] route(call.config) = "unknown mode" ->
                [call EXCEPT !.pc = "rejected",
                             !.error = "Unknown explanation mode"]
           [] route(call.config) = "normal" ->
                [call EXCEPT !.pc = "local"]
           [] OTHER ->
                IF call.config.apiKey
                THEN [call EXCEPT !.pc = "remotePending", !.network = TRUE,
                                  !.request = request(call.key)]
                ELSE [call EXCEPT !.pc = "caught",
                                  !.error = "Gemini API key not configured. Run: nodewise --setup"]
    /\ UNCHANGED <<sessionVars, io>>

\* explainWithGemini: axios.post settles
axiosSettles ==
    /\ call.pc = "remotePending"
    /\ call' = IF HasText(call.remote)
               THEN [call EXCEPT !.pc = "resolved",
                                 !.result = geminiExplanation(call.remote)]
               ELSE [call EXCEPT !.pc = "caught",
                                 !.error = geminiFailure(call.remote),
                                 !.logged = @ \o debugLog(call.request,
                                                          call.remote)]
    /\ UNCHANGED <<sessionVars, io>>

\* A variant of the router's catch block that rethrows.
geminiRethrown ==
    /\ call.pc = "caught"
    /\ call' = [call EXCEPT !.pc = "rejected"]
    /\ UNCHANGED <<sessionVars, io>>

\* A variant of the router's catch block that prints the request's url.
geminiCaughtLogsRequest ==
    /\ call.pc = "caught"
    /\ call' = [Settle(call, explainWithNormal(call.text, call.fault))
                   EXCEPT !.warned = call.error,
                          !.logged = Append(@, <<"Gemini failed, using normal mode: ",
                                                 call.error>>
                                                   \o call.request.url)]
    /\ UNCHANGED <<sessionVars, io>>

\* explain(): catch (geminiError), the warning and the local backend
geminiCaught ==
    /\ call.pc = "caught"
    /\ call' = [Settle(call, explainWithNormal(call.text, call.fault))
                   EXCEPT !.warned = call.error,
                          !.logged = Append(@, <<"Gemini failed, using normal mode: ",
                                                 call.error>>)]
    /\ UNCHANGED <<sessionVars, io>>

\* explain(): mode 'normal'
normalReturns ==
    /\ call.pc = "local"
    /\ call' = Settle(call, explainWithNormal(call.text, call.fault))
    /\ UNCHANGED <<sessionVars, io>>

Next ==
    \/ MainStart
    \/ Tick
    \/ \E c \in 1..Len(procs), text \in ChunkTexts : OnStderr(c, text)
    \/ \E c \in 1..Len(procs), text \in ChunkTexts : OnStdout(c, text)
    \/ \E c \in 1..Len(procs) : OnSpawnError(c)
    \/ \E c \in 1..Len(procs), code \in ExitCodes : OnExit(c, code)
    \/ \E w \in openWatchers : OnWatcherChange(w)
    \/ \E i \in 1..Len(timers) : OnGraceTimer(i)
    \/ \E i \in 1..Len(timers) : OnSettleTimer(i)
    \/ handleShutdown
    \/ \E key \in Keys : Keypress(key)
    \/ \E p \in 1..Len(prompts), ok \in BOOLEAN : GeminiSettles(p, ok)

\* The program as bin/nodewise.js wires it.
Spec == Init /\ [][Next]_vars

\* The lifecycle events alone: file changes, child exits, spawn failures,
\* the restart timers and shutdown.  The children write nothing.
NextLifecycle ==
    \/ MainStart
    \/ Tick
    \/ \E c \in 1..Len(procs) : OnSpawnError(c)
    \/ \E c \in 1..Len(procs), code \in ExitCodes : OnExit(c, code)
    \/ \E w \in openWatchers : OnWatcherChange(w)
    \/ \E i \in 1..Len(timers) : OnGraceTimer(i)
    \/ \E i \in 1..Len(timers) : OnSettleTimer(i)
    \/ handleShutdown

SpecLifecycle == Init /\ [][NextLifecycle]_vars

\* The error pipeline of one launch: output, exit, keys, the remote call, and
\* a client of interactive.js that calls the exported cancelActivePrompt().
NextPipeline ==
    \/ MainStart
    \/ Tick
    \/ \E c \in 1..Len(procs), text \in ChunkTexts : OnStderr(c, text)
    \/ \E c \in 1..Len(procs), text \in ChunkTexts : OnStdout(c, text)
    \/ \E c \in 1..Len(procs) : OnSpawnError(c)
    \/ \E c \in 1..Len(procs), code \in ExitCodes : OnExit(c, code)
    \/ \E key \in Keys : Keypress(key)
    \/ \E p \in 1..Len(prompts), ok \in BOOLEAN : GeminiSettles(p, ok)
    \/ CancelActivePrompt
    \/ handleShutdown

SpecPipeline == Init /\ [][NextPipeline]_vars

\* The exit path under restarts: stderr output, exits, file changes and the
\* restart timers.
NextExit ==
    \/ MainStart
    \/ Tick
    \/ \E c \in 1..Len(procs), text \in ChunkTexts : OnStderr(c, text)
    \/ \E c \in 1..Len(procs), code \in ExitCodes : OnExit(c, code)
    \/ \E w \in openWatchers : OnWatcherChange(w)
    \/ \E i \in 1..Len(timers) : OnGraceTimer(i)
    \/ \E i \in 1..Len(timers) : OnSettleTimer(i)

SpecExit == Init /\ [][NextExit]_vars

\* The failures of a child and what follows them: error output, exits, spawn
\* failures, file changes and the restart timers; nobody interrupts.
NextFailures ==
    \/ MainStart
    \/ Tick
    \/ \E c \in 1..Len(procs), text \in ChunkTexts : OnStderr(c, text)
    \/ \E c \in 1..Len(procs) : OnSpawnError(c)
    \/ \E c \in 1..Len(procs), code \in ExitCodes : OnExit(c, code)
    \/ \E w \in openWatchers : OnWatcherChange(w)
    \/ \E i \in 1..Len(timers) : OnGraceTimer(i)
    \/ \E i \in 1..Len(timers) : OnSettleTimer(i)

SpecFailures == Init /\ [][NextFailures]_vars

\* explainErrorWithDebounce as a method of the exported Runner, called with
\* either value of this.isProcessExiting: the data handlers of one launch,
\* with the flag as the caller's state has it.
InitTrigger ==
    /\ sup = "constructed"
    /\ config \in [mode : Modes, autoRestart : BOOLEAN]
    /\ child = 0
    /\ watcher = 0
    /\ isRestarting = FALSE
    /\ lastErrorExplanationTime = 0
    /\ isProcessExiting \in BOOLEAN
    /\ procs = <<>>
    /\ openWatchers = {}
    /\ timers = <<>>
    /\ now = TickMs
    /\ cancelPrompt = FALSE
    /\ activePromptResolver = 0
    /\ prompts = <<>>
    /\ stdin = [isRaw |-> FALSE, flowing |-> FALSE, listeners |-> <<>>]
    /\ hist = [accepted |-> 0, ignored |-> FALSE, grace |-> 0, starts |-> 0,
              stopped |-> FALSE]
    /\ call = NoCall
    /\ io = NoIo

NextTrigger ==
    \/ MainStart
    \/ Tick
    \/ \E c \in 1..Len(procs), text \in ChunkTexts : OnStderr(c, text)
    \/ \E c \in 1..Len(procs), text \in ChunkTexts : OnStdout(c, text)
    \/ \E key \in Keys : Keypress(key)

SpecTrigger == InitTrigger /\ [][NextTrigger]_vars

\* watcher.on('change') early enough for the timers of the restart to fire
\* within the time the model follows
OnWatcherChangeInTime(w) ==
    /\ now + GraceWindow + SettleDelay <= MaxTicks * TickMs
    /\ OnWatcherChange(w)

\* Restarts to their completion: the event loop runs every timer that is
\* due, and time goes on.
NextRestart ==
    \/ MainStart
    \/ Tick
    \/ \E c \in 1..Len(procs) : OnSpawnError(c)
    \/ \E c \in 1..Len(procs), code \in ExitCodes : OnExit(c, code)
    \/ \E w \in openWatchers : OnWatcherChangeInTime(w)
    \/ \E i \in 1..Len(timers) : OnGraceTimer(i)
    \/ \E i \in 1..Len(timers) : OnSettleTimer(i)

SpecRestart ==
    /\ Init
    /\ [][NextRestart]_vars
    /\ WF_vars(Tick)
    /\ WF_vars(\E i \in 1..Len(timers) : OnGraceTimer(i))
    /\ WF_vars(\E i \in 1..Len(timers) : OnSettleTimer(i))

\* The Runner used programmatically (index.js exports it): the lifecycle
\* callbacks, and a client that calls stop().
NextApi ==
    \/ MainStart
    \/ Tick
    \/ \E c \in 1..Len(procs), code \in ExitCodes : OnExit(c, code)
    \/ \E w \in openWatchers : OnWatcherChange(w)
    \/ \E i \in 1..Len(timers) : OnGraceTimer(i)
    \/ \E i \in 1..Len(timers) : OnSettleTimer(i)
    \/ Stop

SpecApi == Init /\ [][NextApi]_vars

\* One call of explain(errorText, config) for every configuration, error
\* text, outcome of the remote request and fault of the pattern table.
InitRouter ==
    /\ InitSession
    /\ call \in Calls
    /\ io = NoIo

\* showInteractiveExplainer(errorText, config) from the answer on: the prompt
\* for the text call.prompted is awaiting its answer.
InitInteractive ==
    /\ InitSession
    /\ call \in {[c EXCEPT !.pc = "awaiting", !.prompted = c.text,
                           !.text = ""] : c \in Calls}
    /\ io = NoIo

Answers == {"yes", "no", "cancelled"}

\* showInteractiveExplainer after `await getUserInput()`, and
\* explainErrorInteractively up to `await explain(errorText, config)`
answered(answer) ==
    /\ call.pc = "awaiting"
    /\ call' = IF answer = "yes"
               THEN [call EXCEPT !.pc = "called", !.text = call.prompted,
                                 !.invocations = @ + 1, !.thinking = TRUE]
               ELSE [call EXCEPT !.pc = "skipped"]
    /\ UNCHANGED <<sessionVars, io>>

\* explainErrorInteractively: explain() resolved
explanationDisplayed ==
    /\ call.pc = "resolved"
    /\ call.thinking
    /\ call' = [call EXCEPT !.thinking = FALSE, !.shown = "explanation"]
    /\ UNCHANGED <<sessionVars, io>>

\* A variant of explainErrorInteractively without its catch block.
failureUncaught ==
    /\ call.pc = "rejected"
    /\ call.thinking
    /\ ~call.thrown
    /\ call' = [call EXCEPT !.thrown = TRUE]
    /\ UNCHANGED <<sessionVars, io>>

\* explainErrorInteractively: catch (error)
failureReported ==
    /\ call.pc = "rejected"
    /\ call.thinking
    /\ call' = [call EXCEPT !.thinking = FALSE, !.shown = "failed"]
    /\ UNCHANGED <<sessionVars, io>>

NextInteractive ==
    \/ \E answer \in Answers : answered(answer)
    \/ explainCalled
    \/ axiosSettles
    \/ geminiCaught
    \/ normalReturns
    \/ explanationDisplayed
    \/ failureReported

SpecInteractive == InitInteractive /\ [][NextInteractive]_vars

\* explainWithGemini builds its payload for an error text of up to
\* MaxTextLines lines.
InitSnippet ==
    /\ InitSession
    /\ call \in {[NoCall EXCEPT !.pc = "building", !.errorLines = t] :
                    t \in Texts(MaxTextLines)}
    /\ io = NoIo

\* explainWithGemini: const snippet = truncateError(errorText, 6, 800)
snippetBuilt ==
    /\ call.pc = "building"
    /\ call' = [call EXCEPT !.pc = "built",
                            !.snippet = truncateError(call.errorLines,
                                                      SnippetLines,
                                                      SnippetChars)]
    /\ UNCHANGED <<sessionVars, io>>

NextSnippet == snippetBuilt

SpecSnippet == InitSnippet /\ [][NextSnippet]_vars

NextRouter ==
    \/ explainCalled
    \/ axiosSettles
    \/ geminiCaught
    \/ normalReturns

SpecRouter == InitRouter /\ [][NextRouter]_vars

\* The output path alone, followed byte by byte: the chunks of one launch.
NextStreams ==
    \/ MainStart
    \/ Tick
    \/ \E c \in 1..Len(procs), data \in Buffers : StderrChunk(c, data)
    \/ \E c \in 1..Len(procs), data \in Buffers : StdoutChunk(c, data)

SpecStreams == Init /\ [][NextStreams]_vars

\* The detector on the chunks of one launch, on both streams, with prompts
\* raised and answered in between.
NextDetector ==
    \/ MainStart
    \/ Tick
    \/ \E c \in 1..Len(procs), text \in DetectorTexts :
          StderrChunk(c, [line |-> text, tail |-> <<>>])
    \/ \E c \in 1..Len(procs), text \in DetectorTexts :
          StdoutChunk(c, [line |-> text, tail |-> <<>>])
    \/ \E key \in Keys : Keypress(key)

SpecDetector == Init /\ [][NextDetector]_vars

\* The error buffer of each launch: chunks on both streams, exits with a
\* failure or by a signal, and restarts that have the time to complete.
NextBuffer ==
    \/ MainStart
    \/ Tick
    \/ \E c \in 1..Len(procs), text \in ChunkTexts :
          StderrChunk(c, [line |-> text, tail |-> <<>>])
    \/ \E c \in 1..Len(procs), text \in ChunkTexts :
          StdoutChunk(c, [line |-> text, tail |-> <<>>])
    \/ \E c \in 1..Len(procs), code \in {"1", "null"} : OnExit(c, code)
    \/ \E w \in openWatchers : OnWatcherChangeInTime(w)
    \/ \E i \in 1..Len(timers) : OnGraceTimer(i)
    \/ \E i \in 1..Len(timers) : OnSettleTimer(i)

SpecBuffer == Init /\ [][NextBuffer]_vars

(***************************************************************************)
(* config.js: the configuration file and the two functions that write it.  *)
(* An object is a record of its keys; a key that is absent or undefined    *)
(* holds Undefined.                                                        *)
(***************************************************************************)
Undefined == "undefined"

\* what `!v` and `v || ''` take for false
falsy(v) == v \in {Undefined, ""}

NoGemini == [present |-> FALSE, endpoint |-> Undefined, apiKey |-> Undefined]

\* getDefaultConfig()
getDefaultConfig ==
    [mode |-> "normal",
     gemini |-> [present |-> TRUE, endpoint |-> "", apiKey |-> ""],
     autoRestart |-> TRUE,
     ignorePatterns |-> <<"node_modules", ".git", ".env">>,
     timeout |-> 60000]

\* validateConfig(config): the message of the Error it throws, "" when it
\* returns true
validateConfig(c) ==
    IF falsy(c.mode)
    THEN "Config must have a \"mode\" field (normal or gemini)"
    ELSE IF c.mode # "normal" /\ c.mode # "gemini"
    THEN "Mode must be either \"normal\" or \"gemini\""
    ELSE IF c.mode = "gemini"
            /\ (~c.gemini.present \/ falsy(c.gemini.apiKey))
    THEN "Gemini mode requires API key in config"
    ELSE ""

\* JSON.stringify(config, null, 2): the text of the file, by the object it
\* denotes
JSONstringify(c) == [json |-> TRUE, value |-> c]

\* a file that is not JSON
Garbage == [json |-> FALSE, value |-> getDefaultConfig]

NoFile == [exists |-> FALSE, data |-> Garbage]

\* loadConfig(): null without a file, the parsed object, or the Error of a
\* file that does not parse
loadConfig(file) ==
    IF ~file.exists
    THEN [error |-> "", found |-> FALSE, config |-> getDefaultConfig]
    ELSE IF ~file.data.json
    THEN [error |-> "Failed to parse config file: Unexpected token",
          found |-> FALSE, config |-> getDefaultConfig]
    ELSE [error |-> "", found |-> TRUE, config |-> file.data.value]

\* saveConfig(config)
saveConfig(file, c) == [exists |-> TRUE, data |-> JSONstringify(c)]

NotBuilt == [made |-> FALSE, config |-> getDefaultConfig]

\* createConfig(mode, geminiConfig = {}): the file afterwards, the object it
\* built, and the message of what it threw
createConfig(file, mode, geminiConfig) ==
    LET g == IF geminiConfig.present THEN geminiConfig
             ELSE [NoGemini EXCEPT !.present = TRUE]
        c == [getDefaultConfig EXCEPT
                !.mode = mode,
                !.gemini = IF mode = "gemini"
                           THEN [present |-> TRUE,
                                 endpoint |-> IF falsy(g.endpoint) THEN ""
                                              ELSE g.endpoint,
                                 apiKey |-> IF falsy(g.apiKey) THEN ""
                                            ELSE g.apiKey]
                           ELSE @]
        message == validateConfig(c)
    IN  IF message # ""
        THEN [file |-> file, built |-> [made |-> TRUE, config |-> c],
              thrown |-> message]
        ELSE [file |-> saveConfig(file, c),
              built |-> [made |-> TRUE, config |-> c], thrown |-> ""]

\* { ...a, ...b } on the keys of the gemini object
spread(a, b) ==
    [present |-> TRUE,
     endpoint |-> IF b.present /\ b.endpoint # Undefined THEN b.endpoint
                  ELSE a.endpoint,
     apiKey |-> IF b.present /\ b.apiKey # Undefined THEN b.apiKey
                ELSE a.apiKey]

\* the object updateConfig(updates) builds from the loaded one
merged(loaded, updates) ==
    [loaded EXCEPT
        !.mode = IF updates.mode # Undefined THEN updates.mode ELSE @,
        !.gemini = spread(@, updates.gemini)]

\* A variant of updateConfig(updates) that saves before it validates.
updateConfigSavesFirst(file, updates) ==
    LET l == loadConfig(file)
        c == merged(l.config, updates)
    IN  IF l.error # ""
        THEN [file |-> file, built |-> NotBuilt, thrown |-> l.error]
        ELSE [file |-> saveConfig(file, c),
              built |-> [made |-> TRUE, config |-> c],
              thrown |-> validateConfig(c)]

\* updateConfig(updates)
updateConfig(file, updates) ==
    LET l == loadConfig(file)
        c == merged(l.config, updates)
        message == validateConfig(c)
    IN  IF l.error # ""
        THEN [file |-> file, built |-> NotBuilt, thrown |-> l.error]
        ELSE IF message # ""
        THEN [file |-> file, built |-> [made |-> TRUE, config |-> c],
              thrown |-> message]
        ELSE [file |-> saveConfig(file, c),
              built |-> [made |-> TRUE, config |-> c], thrown |-> ""]

\* the arguments and the files under study
ModeArgs == {Undefined, "", "normal", "gemini", "openai"}

GeminiArgs ==
    {NoGemini} \cup [present : {TRUE}, endpoint : {Undefined, ""},
                     apiKey : {Undefined, "", "AIza-key"}]

Updates == [mode : ModeArgs, gemini : GeminiArgs]

Files ==
    {NoFile, [exists |-> TRUE, data |-> Garbage],
     saveConfig(NoFile, getDefaultConfig),
     saveConfig(NoFile, [getDefaultConfig EXCEPT !.gemini = NoGemini]),
     saveConfig(NoFile, [getDefaultConfig EXCEPT !.mode = "openai"]),
     saveConfig(NoFile, [getDefaultConfig EXCEPT
                            !.mode = "gemini", !.gemini.apiKey = "AIza-old",
                            !.autoRestart = FALSE])}

\* calls of the two functions, one after the other, on a file that was
\* written by them or by hand
InitConfig ==
    /\ InitSession
    /\ io = NoIo
    /\ call \in {[op |-> "none", before |-> f, file |-> f,
                  built |-> NotBuilt, thrown |-> ""] : f \in Files}

CreateConfig(mode, geminiConfig) ==
    /\ LET r == createConfig(call.file, mode, geminiConfig)
       IN  call' = [op |-> "createConfig", before |-> call.file,
                    file |-> r.file, built |-> r.built, thrown |-> r.thrown]
    /\ UNCHANGED <<sessionVars, io>>

UpdateConfig(updates) ==
    /\ LET r == updateConfig(call.file, updates)
       IN  call' = [op |-> "updateConfig", before |-> call.file,
                    file |-> r.file, built |-> r.built, thrown |-> r.thrown]
    /\ UNCHANGED <<sessionVars, io>>

NextConfig ==
    \/ \E mode \in ModeArgs, g \in GeminiArgs : CreateConfig(mode, g)
    \/ \E updates \in Updates : UpdateConfig(updates)

SpecConfig == InitConfig /\ [][NextConfig]_vars

(***************************************************************************)
(* Properties.                                                             *)
(***************************************************************************)
Running(c) == procs[c].st = "running"

Awaiting(p) == prompts[p].state = "AwaitingInput"

PromptsOf(c) == {p \in 1..Len(prompts) : prompts[p].pid = c}

\* C1: restart() while a restart is in progress does nothing, so restarts
\* never overlap: at most one restart timer is pending, and it is pending
\* exactly while isRestarting is set; every accepted restart has made exactly
\* one start() call, except the one in progress, which has made none; and
\* every child was launched by main or by one accepted restart.
RestartsNeverOverlap ==
    /\ Len(timers) <= 1
    /\ isRestarting <=> (timers # <<>>)
    /\ hist.accepted = hist.starts + (IF isRestarting THEN 1 ELSE 0)
    /\ hist.grace <= hist.accepted
    /\ sup = "running" => Len(procs) = 1 + hist.starts

\* C1 witness: a restart() call returned at the guard while a restart was in
\* progress, after its SIGTERM and with its timer still pending.
RestartIgnoredWhileRestarting ==
    /\ hist.ignored
    /\ isRestarting
    /\ timers # <<>>

\* C2: at most one child launched by the supervisor is alive at any instant
\* (stated for the sessions that ask for restarts, autoRestart true).
AtMostOneChildAlive ==
    config.autoRestart =>
        Cardinality({c \in 1..Len(procs) : Running(c)}) <= 1

\* C3: once the grace window of a restart has expired (its settle timer is
\* pending), a child that was sent SIGTERM and is still alive has been sent
\* SIGKILL (stated for the sessions with autoRestart true).
ForcefulKillAfterGrace ==
    config.autoRestart =>
        \A i \in 1..Len(timers) :
            (timers[i].kind = "settle" /\ child # 0 /\ Running(child))
                => "SIGKILL" \in procs[child].sigs

\* C4: no prompt raised before the latest launch is still awaiting input
\* once the restart has launched the new child (stated for the sessions with
\* autoRestart true).
RestartCancelsPrompt ==
    (config.autoRestart /\ child # 0 /\ Running(child)) =>
        \A p \in 1..Len(prompts) :
            Awaiting(p) => prompts[p].run = Len(procs)

\* C5: at most one prompt is awaiting input.
AtMostOneAwaitingInput ==
    Cardinality({p \in 1..Len(prompts) : Awaiting(p)}) <= 1

\* C6: two invocations of the prompt pipeline are never raised by error
\* events less than the debounce window apart.
DebounceCollapsesTriggers ==
    \A p, q \in 1..Len(prompts) :
        p < q => prompts[q].at - prompts[p].at >= DebounceWindow

\* C7: a child that exited with code 1 after an error-bearing stderr chunk of
\* its own had raised a prompt has exactly one prompt raised for it, whatever
\* stderr chunks followed the error-bearing one.
OnePromptPerCrash ==
    \A c \in 1..Len(procs) :
        (/\ procs[c].code = "1"
         /\ \E p \in PromptsOf(c) : prompts[p].src = "stderr")
            => Cardinality(PromptsOf(c)) = 1

\* C8: explain() has been invoked for a prompt only if that prompt resolved
\* with "yes"; a prompt that resolved with "no" or was cancelled, or is still
\* awaiting input, has no explanation and no remote call.
ExplainOnlyAfterYes ==
    \A p \in 1..Len(prompts) :
        prompts[p].explain # "none" => prompts[p].state = "yes"

\* C8 witness: one prompt resolved with "no" and another was cancelled, and
\* neither has an explanation.
DeclinedAndCancelledUnexplained ==
    \E p, q \in 1..Len(prompts) :
        /\ prompts[p].state = "no" /\ prompts[p].explain = "none"
        /\ prompts[q].state = "cancelled" /\ prompts[q].explain = "none"

\* C9: with autoRestart false no restart is ever accepted, so no child is
\* terminated or relaunched by a file change.
AutoRestartGatesRestart ==
    ~config.autoRestart => (hist.accepted = 0 /\ Len(procs) <= 1)

\* C10: no prompt is raised while a restart is in flight (stated for the
\* sessions with autoRestart true).
ErrorDuringRestartDiscarded ==
    config.autoRestart =>
        \A p \in 1..Len(prompts) : ~prompts[p].duringRestart

\* C11: when a child exits, a prompt is raised from its buffered stderr text
\* exactly when the exit code is neither 0 nor null, no restart is in
\* progress and the buffer is not empty; an exit with code 0 or by a signal
\* raises none; and in every case this.child is null and the buffer is empty
\* afterwards.
ExitHandsOverBuffer ==
    [][\A c \in 1..Len(procs) :
          (procs[c].st = "running" /\ procs'[c].st = "exited") =>
              /\ IF /\ procs'[c].code \notin {"0", "null"}
                    /\ ~isRestarting
                    /\ procs[c].buf # <<>>
                 THEN /\ Len(prompts') = Len(prompts) + 1
                      /\ prompts'[Len(prompts')].src = "exit"
                      /\ prompts'[Len(prompts')].pid = c
                      /\ prompts'[Len(prompts')].state = "AwaitingInput"
                 ELSE prompts' = prompts
              /\ child' = 0
              /\ procs'[c].buf = <<>>]_vars

\* C11 witness: a child with buffered stderr text exited with code 1 outside
\* a restart and a prompt was raised for it by the exit handler, while
\* another child exited with buffered text during a restart and has none.
ExitRaisedAndExitSilent ==
    /\ \E p \in 1..Len(prompts) :
          prompts[p].src = "exit" /\ procs[prompts[p].pid].code = "1"
    /\ \E c \in 1..Len(procs) :
          procs[c].st = "exited" /\ PromptsOf(c) = {}
    /\ child = 0

\* C12: a spawn failure is an error event: once the 'error' handler of a
\* child that could not be launched has run, a prompt has been raised for it
\* and the supervisor is still running.
SpawnFailureRaisesPrompt ==
    \A c \in 1..Len(procs) :
        procs[c].st = "errored" =>
            /\ \E p \in PromptsOf(c) : prompts[p].src = "error"
            /\ sup = "running"

\* C13: after stop() has returned, this.watcher and this.child are null and
\* no watcher is open, for as long as nobody calls start() or restart()
\* again (in this specification the only callers are main, before stop(),
\* and the 'change' callback of an open watcher; stated for the sessions
\* with autoRestart true).
StopLeavesNothing ==
    (config.autoRestart /\ hist.stopped) =>
        (child = 0 /\ watcher = 0 /\ openWatchers = {})

\* C14: when the supervisor has exited, every child that it sent the
\* graceful-termination signal and that is still alive has also been sent
\* SIGKILL: the supervisor does not give a child up before the escalation.
ShutdownEscalates ==
    sup = "exited" =>
        \A c \in 1..Len(procs) :
            (Running(c) /\ "SIGTERM" \in procs[c].sigs)
                => "SIGKILL" \in procs[c].sigs

\* C15: when the supervisor has exited on an operator interrupt (SIGINT or
\* SIGTERM, or Ctrl+C at a prompt), no watcher is left open and every child
\* still alive has been sent a signal.
InterruptStopsBeforeExit ==
    sup = "exited" =>
        /\ openWatchers = {}
        /\ \A c \in 1..Len(procs) : Running(c) => procs[c].sigs # {}

\* The call has settled: its promise is resolved or rejected.
Settled == call.pc \in {"resolved", "rejected"}

\* The remote backend failed: explainWithGemini had no key to use, or its
\* request did not bring a response with text.
RemoteFailed == ~call.config.apiKey \/ ~HasText(call.remote)

\* C16: with mode "normal" explain() never invokes the remote backend: no
\* request is sent, none is pending, and no remote failure is caught.
NormalModeNeverRemote ==
    (call.config.present /\ call.config.mode = "normal") =>
        /\ ~call.network
        /\ call.pc \notin {"remotePending", "caught"}
        /\ call.warned = ""
        /\ call.result.kind # "gemini"

\* C16 witness: a call with mode "normal" and an API key configured has
\* resolved with a template of the local backend.
NormalModeAnsweredLocally ==
    /\ call.config.present /\ call.config.mode = "normal"
    /\ call.config.apiKey
    /\ call.pc = "resolved"
    /\ call.result.kind = "template"

\* C17: with mode "gemini", when the remote backend fails for whatever
\* reason, explain() does not reject and resolves with exactly what the
\* local backend returns for the same error text.
GeminiFailureFallsBack ==
    (/\ call.config.present /\ call.config.mode = "gemini"
     /\ RemoteFailed
     /\ Settled) =>
        /\ call.pc = "resolved"
        /\ call.result = explainWithNormal(call.text, call.fault)

\* C17 witness: a call with mode "gemini" and a key whose request was
\* answered with status 429 has resolved with the local template, after the
\* warning about the rate limit.
RateLimitedAnsweredLocally ==
    /\ call.config.present /\ call.config.mode = "gemini"
    /\ call.config.apiKey
    /\ call.remote = "429"
    /\ call.pc = "resolved"
    /\ call.warned = "Gemini rate limit (429)"
    /\ call.result.kind = "template"

\* C18, as stated: a settled call was rejected exactly when config is absent
\* or config.mode is a value other than "normal" and "gemini".
FailsExactlyOnBadConfig ==
    Settled =>
        (call.pc = "rejected" <=>
            (\/ ~call.config.present
             \/ call.config.mode \notin {"undefined", "normal", "gemini"}))

\* C18, amended: a settled call was rejected exactly when config is absent or
\* config.mode is a non-empty value other than "normal" and "gemini"; a
\* configuration whose mode is missing or the empty string is served by the
\* local backend; every other call resolves with an explanation.
FailsExactlyOnBadConfigOrNamedMode ==
    Settled =>
        /\ call.pc = "rejected" <=>
              (\/ ~call.config.present
               \/ (~Falsy(call.config.mode)
                   /\ call.config.mode \notin {"normal", "gemini"}))
        /\ call.pc = "rejected" =>
              call.error \in {"Configuration is required",
                              "Unknown explanation mode"}
        /\ call.pc = "resolved" => call.result.kind # "none"
        /\ (call.pc = "resolved" /\ call.config.present
            /\ Falsy(call.config.mode)) => call.result.kind # "gemini"

\* C18 witness: a call whose configuration has mode "verbose" was rejected
\* with the error about the unknown mode.
UnknownModeRejected ==
    /\ call.config.present
    /\ call.config.mode = "verbose"
    /\ call.pc = "rejected"
    /\ call.error = "Unknown explanation mode"

\* C19: for every non-empty error text the local backend returns a non-empty
\* explanation and never throws to its caller; when getErrorExplanation
\* throws, what it returns contains the raw error text.
LocalBackendTotal ==
    /\ (call.pc = "resolved" /\ call.result.kind # "gemini") =>
          /\ call.result = explainWithNormal(call.text, call.fault)
          /\ call.text # "" => call.result.body # ""
          /\ call.fault => (call.result.kind = "unable"
                            /\ call.result.raw = call.text)
    /\ call.pc = "rejected" => call.error # "getErrorExplanation threw"

\* C19 witness: getErrorExplanation threw for a non-empty text and the caller
\* got the message with the raw text.
FaultAnsweredWithRawText ==
    /\ call.pc = "resolved"
    /\ call.fault
    /\ call.text = ModuleLine
    /\ call.result.kind = "unable"
    /\ call.result.raw = ModuleLine

\* C20: findErrorPattern returns the entry of lowest index whose signal
\* matches the text, the last entry when none matches, and the last entry is
\* GENERAL_ERROR; so the template a call resolves with is that entry's.
FirstMatchOrCatchAll ==
    LET n == Len(errorPatternTable)
        hits == {i \in 1..n : Matches(errorPatternTable[i], call.text)}
        e == findErrorPattern(call.text)
    IN  /\ errorPatternTable[n].name = "GENERAL_ERROR"
        /\ hits # {} =>
              \E i \in hits : /\ e = errorPatternTable[i]
                              /\ \A j \in hits : i <= j
        /\ hits = {} => e = errorPatternTable[n]
        /\ (call.pc = "resolved" /\ call.result.kind = "template") =>
              call.result.body = e.explain

\* C20 witness: a call whose text matches SYNTAX_ERROR, UNEXPECTED_TOKEN and
\* GENERAL_ERROR resolved with the SYNTAX_ERROR template.
EarliestOfThreeMatches ==
    /\ call.text = SyntaxLine
    /\ Cardinality({i \in 1..Len(errorPatternTable) :
                       Matches(errorPatternTable[i], call.text)}) = 3
    /\ call.pc = "resolved"
    /\ call.result.kind = "template"
    /\ call.result.body = errorPatternTable[4].explain

\* the position of an entry in the list
IndexOf(e) == CHOOSE i \in 1..Len(errorPatternTable) : errorPatternTable[i] = e

\* the entry is the first of the list that matches the text
Captures(e, text) ==
    /\ findErrorPattern(text) = e
    /\ \A i \in 1..(IndexOf(e) - 1) : ~Matches(errorPatternTable[i], text)

\* C21: with the shipped order, the text with the TypeError and "Cannot read
\* properties" signals gets the TYPE_ERROR template, the texts with "Cannot
\* find module" MODULE_NOT_FOUND, the text with "ReferenceError ... is not
\* defined" REFERENCE_ERROR, and "flibbertigibbet", which no entry matches,
\* the catch-all; no earlier entry matches these texts, and a call that the
\* local backend answers resolves with that template.
ShippedOrderScenario ==
    LET expected ==
            CASE call.text \in {NullReadLine, TypeErrorLine} -> TYPE_ERROR
              [] call.text = ModuleLine -> MODULE_NOT_FOUND
              [] call.text = ReferenceLine -> REFERENCE_ERROR
              [] OTHER -> GENERAL_ERROR
    IN  call.text \in {NullReadLine, TypeErrorLine, ModuleLine,
                       ReferenceLine, UnknownLine} =>
            /\ Captures(expected, call.text)
            /\ call.text = UnknownLine =>
                  \A i \in 1..Len(errorPatternTable) :
                      ~Matches(errorPatternTable[i], call.text)
            /\ (call.pc = "resolved" /\ call.result.kind = "template") =>
                  call.result.body = expected.explain

\* C21 witness: the call for the text "TypeError: Cannot read properties of
\* null (reading 'method')" resolved with the TYPE_ERROR template.
NullReadGetsTypeError ==
    /\ call.text = NullReadLine
    /\ call.pc = "resolved"
    /\ call.result.kind = "template"
    /\ call.result.body = TYPE_ERROR.explain

\* C22: every chunk a child wrote has been written to the supervisor's
\* stream of the same name exactly once, in arrival order, with the same
\* bytes.
OutputPassedThroughUnmodified ==
    io.written = io.sent

\* C23: a file change that finds the child running sends it SIGTERM in the
\* same step and launches nothing; the next child is launched by the settle
\* timer, no sooner than GraceWindow + SettleDelay after that file change,
\* with the script path, the arguments and the NODEWISE_ACTIVE marker of the
\* first launch.
RestartTerminatesThenRelaunches ==
    [][/\ (hist'.grace = hist.grace + 1 /\ procs[child].st = "running") =>
             /\ "SIGTERM" \in procs'[child].sigs
             /\ Len(procs') = Len(procs)
       /\ (timers # <<>> /\ Len(procs') > Len(procs)) =>
             \E i \in 1..Len(timers) :
                /\ timers[i].kind = "settle"
                /\ timers' = RemoveAt(timers, i)
                /\ now >= timers[i].since + GraceWindow + SettleDelay
                /\ procs'[Len(procs')].argv = procs[1].argv
                /\ procs'[Len(procs')].argv = spawnArgs]_vars

\* C23 witness: the child was running when the file changed, it was
\* terminated, and its successor runs
RelaunchedAfterFileChange ==
    /\ Len(procs) = 2
    /\ hist.grace = 1
    /\ hist.starts = 1
    /\ "SIGTERM" \in procs[1].sigs \/ procs[1].st = "exited"
    /\ procs[2].st = "running"
    /\ procs[2].argv = procs[1].argv
    /\ now >= GraceWindow + SettleDelay

Listens(st, p) == \E i \in 1..Len(st.listeners) : st.listeners[i] = p

\* C24: a prompt that leaves AwaitingInput (Enter on yes or no,
\* cancelActivePrompt, the cancellation seen by a keypress) leaves in the
\* same step its listener removed, raw mode off and stdin paused, and so does
\* the Ctrl+C branch before it exits the process; a prompt that no longer
\* awaits has no listener, and when no prompt awaits the terminal is not raw
\* and no keypress listener is registered.
PromptLeavesTerminalClean ==
    /\ [](/\ \A p \in 1..Len(prompts) : ~Awaiting(p) => ~Listens(stdin, p)
          /\ (\A p \in 1..Len(prompts) : ~Awaiting(p)) =>
                ~stdin.isRaw /\ stdin.listeners = <<>>
          /\ \A p \in 1..Len(prompts) :
                Awaiting(p) =>
                   LET r == onKeypress(UI, p, "ctrl-c")
                   IN  /\ ~cancelPrompt => r.exit
                       /\ ~r.ui.stdin.isRaw
                       /\ ~r.ui.stdin.flowing
                       /\ ~Listens(r.ui.stdin, p))
    /\ [][\A p \in 1..Len(prompts) :
             (Awaiting(p) /\ Len(prompts') >= p
                 /\ prompts'[p].state # "AwaitingInput") =>
                /\ ~stdin'.isRaw
                /\ ~stdin'.flowing
                /\ ~Listens(stdin', p)]_vars

\* C24 witness: one prompt was cancelled and one was answered with Enter, and
\* the terminal is back to its state before the prompts
PromptsCancelledAndAnswered ==
    /\ Len(prompts) = 2
    /\ prompts[1].state = "cancelled"
    /\ prompts[2].state \in {"yes", "no"}
    /\ ~stdin.isRaw
    /\ ~stdin.flowing
    /\ stdin.listeners = <<>>

FromChunk(p) == p.src \in {"stderr", "stdout"}

\* C25: the step in which an error chunk raises a prompt writes the time of
\* that step to lastErrorExplanationTime; while the debounce window of that
\* time is open no chunk raises a prompt and the timestamp stays, whatever
\* the state of the earlier prompt or of its explanation call; so two
\* prompts raised by chunks are at least DebounceWindow apart.
StampedAtAcceptance ==
    /\ [][/\ (Len(prompts') > Len(prompts)
                /\ FromChunk(prompts'[Len(prompts')])) =>
                /\ lastErrorExplanationTime' = now
                /\ prompts'[Len(prompts')].at = now
          /\ (sup' = "running" /\ lastErrorExplanationTime # 0
                /\ now - lastErrorExplanationTime < DebounceWindow) =>
                /\ lastErrorExplanationTime' = lastErrorExplanationTime
                /\ Len(prompts') > Len(prompts) =>
                      ~FromChunk(prompts'[Len(prompts')])]_vars
    /\ [](\A p, q \in 1..Len(prompts) :
             (p < q /\ FromChunk(prompts[p]) /\ FromChunk(prompts[q])) =>
                /\ prompts[q].at - prompts[p].at >= DebounceWindow
                /\ lastErrorExplanationTime >= prompts[q].at)

\* C25 witness: a second chunk was accepted a window after the first while
\* the explanation call of the first is still outstanding
AcceptedWhileExplanationOutstanding ==
    /\ Len(prompts) = 2
    /\ FromChunk(prompts[1])
    /\ prompts[1].explain = "remotePending"
    /\ FromChunk(prompts[2])
    /\ prompts[2].at >= prompts[1].at + DebounceWindow
    /\ lastErrorExplanationTime = prompts[2].at

\* C26: without an interrupt the supervisor, once started, keeps running
\* and keeps an open watcher whatever its children do; the step in which a
\* child exits or fails to spawn leaves the watcher as it was; a file change
\* accepted when there is no child handle launches a child in the same step,
\* and every accepted file change has launched a child or has its timer
\* pending.
ChildFailureLeavesSupervisorWatching ==
    /\ [](sup # "constructed" =>
             /\ sup = "running"
             /\ watcher # 0
             /\ watcher \in openWatchers
             /\ hist.accepted = hist.starts + Len(timers))
    /\ [][/\ \A c \in 1..Len(procs) :
                (procs[c].st \in {"running", "failed"}
                    /\ procs'[c].st \in {"exited", "errored"}) =>
                   /\ sup' = "running"
                   /\ watcher' = watcher
                   /\ openWatchers' = openWatchers
          /\ (hist'.accepted = hist.accepted + 1 /\ child = 0) =>
                /\ Len(procs') = Len(procs) + 1
                /\ child' = Len(procs')
                /\ watcher' \in openWatchers'
                /\ timers' = timers]_vars

\* C26 witness: the first child exited with code 1 after error output, and
\* the next file change launched the second child at once
RelaunchedAfterCrash ==
    /\ Len(procs) = 2
    /\ procs[1].st = "exited"
    /\ procs[1].code = "1"
    /\ prompts # <<>>
    /\ hist.grace = 0
    /\ hist.starts = 1
    /\ procs[2].st = "running"
    /\ watcher \in openWatchers

Taxonomy ==
    {"Gemini API Key Error: invalid or expired key",
     "Gemini rate limit (429)",
     "Gemini service unavailable",
     "Network error: cannot reach Gemini",
     "Timeout: Gemini did not respond",
     "Gemini API Error: Empty response from Gemini API"}

\* C28: when the remote request has failed, the error the backend throws is
\* one reason of the taxonomy: key invalid for 401 and 403, rate-limited for
\* 429, service unavailable for 500 and 503, network unreachable for a
\* refused connection or an unknown host, timed out for a request that timed
\* out, empty response for a success response without text.
RemoteFailureInTaxonomy ==
    (call.pc = "caught" /\ call.network) =>
        /\ call.error \in Taxonomy
        /\ call.remote \in {"401", "403"} =>
              call.error = "Gemini API Key Error: invalid or expired key"
        /\ call.remote = "429" => call.error = "Gemini rate limit (429)"
        /\ call.remote \in {"500", "503"} =>
              call.error = "Gemini service unavailable"
        /\ call.remote \in {"ECONNREFUSED", "ENOTFOUND"} =>
              call.error = "Network error: cannot reach Gemini"
        /\ call.remote \in {"ETIMEDOUT", "ECONNABORTED"} =>
              call.error = "Timeout: Gemini did not respond"
        /\ call.remote \in {"empty", "malformed"} =>
              call.error = "Gemini API Error: Empty response from Gemini API"

\* C29: what a call has logged is the router's warning alone, made of its
\* fixed prefix and the reason, which is decided by the way the request
\* failed (or by the absence of a key); no part of it is the API key, and it
\* is the same for every value of the key.
LogIndependentOfKey ==
    /\ \A i \in 1..Len(call.logged) :
          \A j \in 1..Len(call.logged[i]) : call.logged[i][j] \notin ApiKeys
    /\ call.logged =
          IF call.warned = "" THEN <<>>
          ELSE << <<"Gemini failed, using normal mode: ",
                    IF call.config.apiKey
                    THEN geminiFailure(call.remote)
                    ELSE "Gemini API key not configured. Run: nodewise --setup">> >>

\* C29 witness: a request carrying the second key was refused with 401 and
\* the warning was logged
KeyRefusedAndWarned ==
    /\ call.key = "AIzaSy-key-two"
    /\ call.request = request(call.key)
    /\ call.remote = "401"
    /\ Len(call.logged) = 1
    /\ call.pc = "resolved"

\* the signals of the fixed list that match a text
Signals(text) == {i \in 1..Len(errorPatterns) : errorPatterns[i] \in NeedlesIn(text)}

\* C30: every chunk of either stream got a verdict, in arrival order; the
\* verdict is TRUE exactly when a signal of the list matches the chunk's
\* text; equal texts get equal verdicts whatever came before, on either
\* stream; and the step that handles a chunk treats it by that verdict
\* alone: a matching chunk empties the buffer, and outside a debounce
\* window it raises a prompt.
DetectorStateless ==
    /\ [](/\ Len(io.verdicts) = Len(io.sent)
          /\ \A i \in 1..Len(io.verdicts) :
                /\ io.verdicts[i].stream = io.sent[i].stream
                /\ io.verdicts[i].text = io.sent[i].data.line
                /\ io.verdicts[i].verdict = (Signals(io.verdicts[i].text) # {})
          /\ \A i, j \in 1..Len(io.verdicts) :
                io.verdicts[i].text = io.verdicts[j].text =>
                   io.verdicts[i].verdict = io.verdicts[j].verdict)
    /\ [][Len(io'.sent) > Len(io.sent) =>
             LET text == io'.sent[Len(io'.sent)].data.line
                 open == /\ lastErrorExplanationTime # 0
                         /\ now - lastErrorExplanationTime < DebounceWindow
             IN  /\ (Signals(text) # {} /\ ~open) =>
                       /\ Len(prompts') = Len(prompts) + 1
                       /\ lastErrorExplanationTime' = now
                 /\ (Signals(text) = {} \/ open) => prompts' = prompts
                 /\ Signals(text) # {} => procs'[child].buf = <<>>]_vars

\* C30 witness: the same failing text was seen on stderr and then on stdout
\* with a prompt open in between, and an unsuspicious line on each stream
\* would pass; both verdicts on the failing text are TRUE
SameTextBothStreams ==
    /\ Len(io.verdicts) = 2
    /\ io.verdicts[1].stream = "stderr"
    /\ io.verdicts[2].stream = "stdout"
    /\ io.verdicts[1].text = BuildLine
    /\ io.verdicts[2].text = BuildLine
    /\ io.verdicts[1].verdict
    /\ io.verdicts[2].verdict
    /\ prompts # <<>>

\* C31: explain() is invoked once, with the prompted text, exactly for the
\* answer "yes"; the progress indicator runs only between that invocation
\* and the display of its outcome; a resolved call is displayed as an
\* explanation and a rejected one as a failure text, the indicator stopped
\* in both cases; nothing is thrown to the caller.
YesExplainsOnceAndReports ==
    /\ call.invocations = IF call.pc \in {"awaiting", "skipped"} THEN 0 ELSE 1
    /\ call.invocations = 1 => call.text = call.prompted
    /\ call.thinking => (call.invocations = 1 /\ call.shown = "none")
    /\ (Settled /\ ~call.thinking) =>
          call.shown = IF call.pc = "rejected" THEN "failed"
                       ELSE "explanation"
    /\ (call.invocations = 1 /\ ~Settled) => call.thinking
    /\ ~call.thrown
    /\ sup = "constructed"

\* C31 witness: the answer was yes, explain() rejected, and the failure was
\* reported with the indicator stopped
RejectionReportedAsText ==
    /\ call.invocations = 1
    /\ call.pc = "rejected"
    /\ call.shown = "failed"
    /\ ~call.thinking

\* C32: a prompt that has left AwaitingInput keeps its answer for good (its
\* promise is resolved at most once, by whatever key or cancellation comes
\* next); cancelActivePrompt() leaves no prompt awaiting when it returns,
\* and calling it again changes nothing.
PromptResolvedOnceCancelledAtOnce ==
    /\ [](LET u1 == cancelActivePrompt(UI)
          IN  /\ \A p \in 1..Len(prompts) :
                    Awaiting(p) => u1.prompts[p].state = "cancelled"
              /\ cancelActivePrompt(u1) = u1)
    /\ [][\A p \in 1..Len(prompts) :
             (~Awaiting(p) /\ Len(prompts') >= p) =>
                /\ prompts'[p].state = prompts[p].state
                /\ prompts[p].explain = "none" =>
                      prompts'[p].explain = "none"]_vars

\* C33: the excerpt holds at most SnippetLines non-empty lines and at most
\* SnippetChars characters of the error text, carries at most one
\* truncation marker, and carries one whenever non-empty lines were left out
\* or characters were cut.
SnippetBoundedAndMarked ==
    call.pc = "built" =>
        /\ Len(call.snippet.kept) <= SnippetLines
        /\ \A i \in 1..Len(call.snippet.kept) : call.snippet.kept[i].len > 0
        /\ call.snippet.chars <= SnippetChars
        /\ ~(call.snippet.cutMarker /\ call.snippet.lineMarker)
        /\ (call.snippet.of > Len(call.snippet.kept)
               \/ joinedLength(call.snippet.kept) > call.snippet.chars) =>
              (call.snippet.cutMarker \/ call.snippet.lineMarker)

\* C34: while the most recently launched child is alive, the handle
\* designates it (stated for the sessions with autoRestart true).
HandleDesignatesLatestChild ==
    (config.autoRestart /\ sup = "running" /\ procs # <<>>
        /\ Running(Len(procs))) =>
        child = Len(procs)

\* C35: whenever isRestarting is set, it is cleared later with one start()
\* made for every accepted restart; while it is set exactly one timer of the
\* restart is pending, and at any time every accepted restart has made its
\* start() or has its timer pending.
RestartCompletes ==
    /\ isRestarting ~> (~isRestarting /\ hist.starts = hist.accepted
                           /\ timers = <<>>)
    /\ [](isRestarting <=> Len(timers) = 1)
    /\ [](hist.accepted = hist.starts + Len(timers))

\* C35 witness: a restart was accepted with the child running, the child
\* exited, and the restart has completed with its one start()
RestartCompleted ==
    /\ hist.accepted = 1
    /\ hist.grace = 1
    /\ hist.starts = 1
    /\ ~isRestarting
    /\ timers = <<>>
    /\ Len(procs) = 2
    /\ procs[1].st = "exited"

\* C36: at most one watcher is open, and while the supervisor runs it is the
\* one the handle designates; a start() leaves open only the watcher it
\* created; no step makes more than one restart call that is accepted.
OneWatcherOpen ==
    /\ [](/\ Cardinality(openWatchers) <= 1
          /\ sup = "running" =>
                openWatchers = IF watcher = 0 THEN {} ELSE {watcher})
    /\ [][/\ Len(procs') > Len(procs) => openWatchers' = {Len(procs')}
          /\ hist'.accepted <= hist.accepted + 1]_vars

\* C36 witness: after a start, an exit and a restart the only open watcher is
\* the one of the second start
SecondWatcherAlone ==
    /\ sup = "running"
    /\ Len(procs) = 2
    /\ hist.starts = 1
    /\ watcher = 2
    /\ openWatchers = {2}

\* C37: isProcessExiting is false whenever a handler is about to run, so
\* every step that stamps the explanation time or raises a prompt, the steps
\* of explainErrorWithDebounce among them, starts with the flag false.
FlagNeverObserved ==
    /\ [](~isProcessExiting)
    /\ [][(lastErrorExplanationTime' # lastErrorExplanationTime
             \/ Len(prompts') > Len(prompts)) => ~isProcessExiting]_vars

\* C37 witness: the first child exited with code 1, and an error chunk of
\* the second child went through explainErrorWithDebounce and raised a prompt
ChunkPromptAfterExit ==
    /\ Len(procs) = 2
    /\ procs[1].st = "exited"
    /\ procs[1].code = "1"
    /\ \E p \in 1..Len(prompts) : FromChunk(prompts[p]) /\ prompts[p].pid = 2
    /\ lastErrorExplanationTime # 0
    /\ ~isProcessExiting

ChunkPromptTimes == {prompts[p].at : p \in {q \in 1..Len(prompts) : FromChunk(prompts[q])}}

\* C38: the timestamp is the time of the last accepted trigger (0 before the
\* first), whatever was suppressed since; and in every state a trigger
\* handed to explainErrorWithDebounce is accepted if it is the first or comes
\* DebounceWindow or more after the last accepted one, and is suppressed
\* otherwise, leaving the timestamp and the prompts as they are.
DebounceAnchoredAtAcceptance ==
    sup = "running" =>
        /\ lastErrorExplanationTime =
              IF ChunkPromptTimes = {} THEN 0
              ELSE CHOOSE t \in ChunkPromptTimes :
                      \A x \in ChunkPromptTimes : x <= t
        /\ \A src \in {"stderr", "stdout"} :
              LET e == explainErrorWithDebounce(UI, TypeErrorLine, src, 1)
              IN  IF lastErrorExplanationTime = 0
                     \/ now - lastErrorExplanationTime >= DebounceWindow
                  THEN /\ e.last = now
                       /\ Len(e.ui.prompts) = Len(prompts) + 1
                  ELSE /\ e.last = lastErrorExplanationTime
                       /\ e.ui = UI

\* C38 witness: a trigger was accepted exactly one window after the first,
\* whose prompt had been answered with no
AcceptedOneWindowLater ==
    /\ Len(prompts) = 2
    /\ FromChunk(prompts[1])
    /\ prompts[1].state = "no"
    /\ FromChunk(prompts[2])
    /\ prompts[2].at = prompts[1].at + DebounceWindow
    /\ lastErrorExplanationTime = prompts[2].at

\* The stderr texts of launch c among the chunks `sent`, from the last
\* error-bearing chunk of that launch on.
RECURSIVE StderrSinceLastError(_, _)
StderrSinceLastError(sent, c) ==
    IF sent = <<>> THEN <<>>
    ELSE LET e == sent[Len(sent)]
             text == toString(e.data).line
             before == StderrSinceLastError(SubSeq(sent, 1, Len(sent) - 1), c)
         IN  IF e.pid # c THEN before
             ELSE IF isErrorOutput(text) THEN <<>>
             ELSE IF e.stream = "stderr" THEN Append(before, text)
             ELSE before

\* C39: the error buffer of a launch holds exactly the stderr chunks received
\* since the last error-bearing chunk of that launch on either stream (so it
\* is empty right after such a chunk, debounced or not, and never holds
\* stdout text), a new launch starts with an empty buffer, and the text
\* handed to the error path at a non-zero exit is that buffer.
ErrorBufferHoldsStderrSinceLastError ==
    /\ [](\A c \in 1..Len(procs) :
            procs[c].buf = IF Running(c)
                           THEN StderrSinceLastError(io.sent, c)
                           ELSE <<>>)
    /\ [][/\ Len(procs') > Len(procs) => procs'[Len(procs')].buf = <<>>
          /\ Len(io'.sent) > Len(io.sent) =>
                LET e == io'.sent[Len(io'.sent)]
                IN  isErrorOutput(toString(e.data).line) =>
                        procs'[e.pid].buf = <<>>
          /\ \A p \in 1..Len(prompts') :
                (p > Len(prompts) /\ prompts'[p].src = "exit") =>
                    /\ prompts'[p].text # <<>>
                    /\ prompts'[p].text =
                          StderrSinceLastError(io.sent, prompts'[p].pid)]_vars

\* C39 witness: a launch that wrote a line on stdout and a trace on stderr
\* has exited with a failure and only the trace went to the error path.
ExitHandsOverStderrOnly ==
    \E p \in 1..Len(prompts) :
        /\ prompts[p].src = "exit"
        /\ prompts[p].text = <<TraceLine>>
        /\ \E i \in 1..Len(io.sent) :
              /\ io.sent[i].stream = "stdout"
              /\ io.sent[i].pid = prompts[p].pid

\* the configurations the functions must refuse: no mode, a mode that is
\* neither normal nor gemini, or gemini without an API key
InvalidConfig(c) ==
    \/ c.mode \in {Undefined, ""}
    \/ c.mode \notin {"normal", "gemini"}
    \/ c.mode = "gemini"
       /\ (~c.gemini.present \/ c.gemini.apiKey \in {Undefined, ""})

\* C40: when the configuration createConfig or updateConfig has built is
\* invalid, the call throws and the configuration file is what it was before
\* the call.
InvalidConfigThrowsBeforeSave ==
    (call.op \in {"createConfig", "updateConfig"}
     /\ call.built.made /\ InvalidConfig(call.built.config)) =>
        /\ call.thrown # ""
        /\ call.file = call.before

\* C40 witness: an update that switches a saved normal configuration to
\* gemini without an API key has thrown and the file still holds the normal
\* configuration.
GeminiUpdateWithoutKeyRefused ==
    /\ call.op = "updateConfig"
    /\ call.built.made
    /\ call.built.config.mode = "gemini"
    /\ call.thrown = "Gemini mode requires API key in config"
    /\ call.before = saveConfig(NoFile, getDefaultConfig)
    /\ call.file = call.before

====
